---- MODULE Spec2Model ----
(***************************************************************************)
(* Request orchestration of jarvis-3d.                                     *)
(*                                                                         *)
(* Server side: the chat endpoint (src/app/api/openai/route.ts) and the    *)
(* speech endpoint (src/unnamed/part_001, the caching LMNT route) with     *)
(* their module-level response caches, and the pure helpers they use.      *)
(*                                                                         *)
(* Client side: the speech hook (src/unnamed/part_005: speak and           *)
(* speakWithLMNT), fetchWithTimeout and preloadAPIs                        *)
(* (src/app/utils/apiUtils.ts), and the conversation session               *)
(* (src/app/components/JarvisInterface.tsx: handleUserMessage).            *)
(*                                                                         *)
(* Each part has a specification of its own over its own variables; the    *)
(* variables of the other parts stay at rest.  Each action is one          *)
(* synchronous section of a handler: the code between two await points     *)
(* runs to completion on the single JavaScript thread.                     *)
(***************************************************************************)
EXTENDS Integers, Sequences, FiniteSets, TLC

\* ------------------------------------------------------------------ bounds
\* Number of HTTP requests in one behaviour.
MaxReqs == 4
\* Number of chat requests in one behaviour in parallel mode, where every
\* request has two provider calls in flight.
MaxParallelReqs == 3
\* Date.now() is a counter of ticks 0..MaxTime.
MaxTime == 3
\* Number of requests that are awaiting a provider at the same time.
MaxInFlight == 2
\* Longest message list drawn as an input of the pure key functions.
MaxMsgs == 2
\* Number of speak() calls in one behaviour of the speech hook.
MaxSpeaks == 3
\* Ticks a fetchWithTimeout call is followed for.
MaxFetchClock == 3
\* Longest conversation history of a session.
MaxHistory == 12
\* Requests and cache capacity of the behaviours that fill a chat cache of
\* more than two entries (SpecStore).
MaxStoreReqs == 5
StoreCacheSize == 3
\* Longest voice list handed to findVoiceByGender.
MaxVoices == 3

\* config.ts:11 sets 50, config.ts:13 sets 30: the caches are modelled with a
\* reduced capacity so that a full cache is reached within MaxReqs requests.
OPENAI_CACHE_SIZE == 2
LMNT_CACHE_SIZE == 2
\* config.ts:12 sets 5 minutes, config.ts:14 sets 30 minutes, in milliseconds:
\* the model's clock counts ticks and the expirations are a few ticks.
OPENAI_CACHE_EXPIRATION == 2
LMNT_CACHE_EXPIRATION == 2
\* config.ts:8 sets 15000 ms: in ticks, between the two timeouts a caller
\* passes in the model.
FETCH_TIMEOUT == 2

\* ------------------------------------------------------- program constants
JARVIS_SYSTEM_PROMPT == "JARVIS"
DEFAULT_LMNT_VOICE == "lily"
\* config.ts:28
DISABLE_LMNT_ON_MOBILE == TRUE
\* JarvisInterface.tsx:189 (config.ts:23)
MAX_RECENT_MESSAGES == 9

VARIABLES
    now,                \* Date.now()
    parallelMode,       \* ENABLE_PARALLEL_REQUESTS, fixed at start-up
    route,              \* the route a behaviour loads, "chat" or "lmnt": the two
                        \* routes are separate modules and share no state
    responseCache,      \* route.ts: Map<string, CacheEntry>, in iteration order
    lmntCache,          \* part_001: Map<string, CacheEntry>, in iteration order
    reqs,               \* the requests in flight: position in POST and locals
    last,               \* the response sent by the step just taken, if any
    insOrder,           \* history: keys of the chat cache by time of Map insertion
    firstOk,            \* history: per key, the first provider answer of a window
    keyIn,              \* inputs of the pure cache-key functions
    keyOut,             \* their results
    prepIn,             \* a request body handed to the message preparation
    prepOut,            \* the message list the endpoint would send upstream
    config,             \* config.ts as built: DISABLE_LMNT_ON_MOBILE and the
                        \* chat cache capacity OPENAI_CACHE_SIZE
    device,             \* the capability probe: mobile?, speech synthesis?
    preferredGender,    \* the hook's preferredGender prop (voiceGender)
    isSpeaking,         \* JarvisInterface state behind onSpeakingChange
    isLmntLoading,      \* JarvisInterface state behind onLmntLoadingChange
    nUtt,               \* number of speak() calls made so far
    timers,             \* utterances whose 250 ms start timer is pending
    calls,              \* utterances whose callLMNT is pending
    synthQueue,         \* window.speechSynthesis: its queue, the head speaking
    cancelled,          \* utterances removed by cancel(), their event not yet seen
    audio,              \* the hook's one HTMLAudioElement: source and playback
    preloadCalls,       \* the endpoints preloadAPIs has called
    speechLast,         \* what the speech step just taken did
    fetchCall,          \* one fetchWithTimeout call: position, timer, outcome
    fetchClock,         \* ticks elapsed since the call started
    loading,            \* JarvisInterface: loading
    error,              \* JarvisInterface: error, "" for null
    conversationHistory,    \* JarvisInterface: conversationHistory
    lastProcessedMessage,   \* JarvisInterface: lastProcessedMessage.current
    chatReq,            \* the session's chat request in flight
    sessionLast,        \* what the session step just taken did
    normIn,             \* a response body handed to the reply normalizers
    normOut,            \* what each normalizer made of it
    voiceIn,            \* a voice list and a gender handed to findVoiceByGender
    voiceOut            \* the voice it selected

serverVars ==
    <<now, parallelMode, route, responseCache, lmntCache, reqs, last, insOrder, firstOk>>
keyVars == <<keyIn, keyOut>>
prepVars == <<prepIn, prepOut>>
speechVars ==
    <<config, device, preferredGender, isSpeaking, isLmntLoading, nUtt, timers, calls,
      synthQueue, cancelled, audio, preloadCalls, speechLast>>
fetchVars == <<fetchCall, fetchClock>>
sessionVars ==
    <<loading, error, conversationHistory, lastProcessedMessage, chatReq, sessionLast>>
normVars == <<normIn, normOut>>
voiceVars == <<voiceIn, voiceOut>>
clientVars == <<prepVars, speechVars, fetchVars, sessionVars, normVars, voiceVars>>
vars == <<serverVars, keyVars, clientVars>>

\* ------------------------------------------------------------ JavaScript Map
\* A Map is the sequence of its entries in iteration (insertion) order.
MapKeys(m) == {m[i].key : i \in 1..Len(m)}

MapHas(m, k) == k \in MapKeys(m)

MapGet(m, k) == m[CHOOSE i \in 1..Len(m) : m[i].key = k]

MapDelete(m, k) == SelectSeq(m, LAMBDA e : e.key # k)

\* Map.prototype.set: a present key keeps its position, a new key goes last.
MapSet(m, k, e) ==
    IF MapHas(m, k)
    THEN [i \in 1..Len(m) |-> IF m[i].key = k THEN e ELSE m[i]]
    ELSE Append(m, e)

\* A JavaScript string is truthy unless it is empty.
Truthy(s) == s # ""

\* --------------------------------------------------------- JSON.stringify
\* JSON text of the one non-string content the endpoint can produce: the
\* nested content [{type:'text', text:''}].
EmptyTextArrayJson == "[{\"type\":\"text\",\"text\":\"\"}]"

\* JSON.stringify of a string: quotes around the escaped text.  Of the strings
\* of this model only EmptyTextArrayJson holds characters that are escaped.
JsonString(s) ==
    IF s = EmptyTextArrayJson
    THEN "\"[{\\\"type\\\":\\\"text\\\",\\\"text\\\":\\\"\\\"}]\""
    ELSE "\"" \o s \o "\""

\* ------------------------------------------------- chat route: pure helpers
\* An ApiMessage is [role, content]; content is a string (kind "str") or the
\* nested array [{type:'text', text}] (kind "arr").
StrContent(t) == [kind |-> "str", text |-> t]
ArrContent(t) == [kind |-> "arr", text |-> t]

\* route.ts:47-49, the content of one key object.
KeyContent(c) ==
    IF c.kind = "str" THEN c.text
    ELSE IF Truthy(c.text) THEN c.text
    ELSE EmptyTextArrayJson

\* route.ts:45-50, the object one message maps to, as JSON text.
KeyObject(msg) ==
    "{\"role\":" \o JsonString(IF Truthy(msg.role) THEN msg.role ELSE "user")
        \o ",\"content\":" \o JsonString(KeyContent(msg.content)) \o "}"

RECURSIVE JoinObjects(_)
JoinObjects(msgs) ==
    IF Len(msgs) = 0 THEN ""
    ELSE IF Len(msgs) = 1 THEN KeyObject(msgs[1])
    ELSE KeyObject(msgs[1]) \o "," \o JoinObjects(Tail(msgs))

\* route.ts:44-51
generateCacheKey(messages) == "[" \o JoinObjects(messages) \o "]"

\* A request body {prompt?, messages?}: prompt "" stands for an absent (falsy)
\* prompt; msgKind is "absent" (falsy), "array" or "other" (truthy, no array).
Body(prompt, msgKind, messages) ==
    [prompt |-> prompt, msgKind |-> msgKind, messages |-> messages]

\* route.ts:86, the 400 guard: a mutation looks at the prompt alone.
BodyRejectedWithoutPrompt(body) == ~Truthy(body.prompt)

BodyRejected(body) == ~Truthy(body.prompt) /\ body.msgKind = "absent"

SystemMessage == [role |-> "developer", content |-> ArrContent(JARVIS_SYSTEM_PROMPT)]

\* route.ts:99-136, apiMessages as prepared from the body.
PrepareMessages(body) ==
    IF Truthy(body.prompt)
    THEN <<SystemMessage, [role |-> "user", content |-> ArrContent(body.prompt)]>>
    ELSE IF body.msgKind = "array"
    THEN LET ms == body.messages
             mapped == [i \in 1..Len(ms) |->
                          [role |-> IF ms[i].role = "system" THEN "developer"
                                    ELSE ms[i].role,
                           content |-> ArrContent(ms[i].content)]]
         IN  IF ~(\E i \in 1..Len(ms) : ms[i].role = "system")
             THEN <<SystemMessage>> \o mapped
             ELSE mapped
    ELSE << >>

\* route.ts:139, the key POST computes for a body.
ChatCacheKey(body) == generateCacheKey(PrepareMessages(body))

\* route.ts:34-41
cleanupCache(m, t) ==
    SelectSeq(m, LAMBDA e : ~(t - e.timestamp > OPENAI_CACHE_EXPIRATION))

\* Mutations of the lookup: an entry of age E still served; the age compared
\* the wrong way round.
CacheLookupHitInclusive(m, k, t) ==
    MapHas(m, k) /\ t - MapGet(m, k).timestamp <= OPENAI_CACHE_EXPIRATION

CacheLookupHitInverted(m, k, t) ==
    MapHas(m, k) /\ t - MapGet(m, k).timestamp > OPENAI_CACHE_EXPIRATION

\* route.ts:140-146, the lookup: the entry is served only while it is live.
CacheLookupHit(m, k, t) ==
    MapHas(m, k) /\ t - MapGet(m, k).timestamp < OPENAI_CACHE_EXPIRATION

\* route.ts:141-144, responseCache.get on a hit leaves the map as it is: a
\* mutation moves the entry read to the end with a fresh timestamp.
CacheAfterHitTouched(m, k, t) ==
    Append(MapDelete(m, k), [MapGet(m, k) EXCEPT !.timestamp = t])

CacheAfterHit(m, k, t) == m

\* Mutations of the eviction: only above capacity; the newest entry.
EvictOldestOffByOne(m) ==
    IF Len(m) > config.OPENAI_CACHE_SIZE
    THEN IF Len(m) > 0 /\ Truthy(m[1].key) THEN MapDelete(m, m[1].key) ELSE m
    ELSE m

EvictNewest(m) ==
    IF Len(m) >= config.OPENAI_CACHE_SIZE
    THEN IF Len(m) > 0 /\ Truthy(m[Len(m)].key) THEN MapDelete(m, m[Len(m)].key) ELSE m
    ELSE m

\* route.ts:239-245, the capacity eviction before a store.
EvictOldest(m) ==
    IF Len(m) >= config.OPENAI_CACHE_SIZE
    THEN IF Len(m) > 0 /\ Truthy(m[1].key) THEN MapDelete(m, m[1].key) ELSE m
    ELSE m

\* route.ts:238-250
StoreResponse(m, k, completion, t) ==
    MapSet(EvictOldest(m), k, [key |-> k, value |-> completion, timestamp |-> t])

\* --------------------------------------------- speech route: pure helpers
\* part_001:74-76
LmntGenerateCacheKey(text, voice) == voice \o ":" \o text

\* part_001:64-71
LmntCleanupCache(m, t) ==
    SelectSeq(m, LAMBDA e : ~(t - e.timestamp > LMNT_CACHE_EXPIRATION))

\* part_001:101-114, the lookup: any entry in the map is served.
LmntLookupHit(m, k, t) == MapHas(m, k)

\* part_001:138-144
LmntEvictOldest(m) ==
    IF Len(m) >= LMNT_CACHE_SIZE
    THEN IF Len(m) > 0 /\ Truthy(m[1].key) THEN MapDelete(m, m[1].key) ELSE m
    ELSE m

\* part_001:137-149
StoreAudio(m, k, audioBuffer, t) ==
    MapSet(LmntEvictOldest(m), k, [key |-> k, value |-> audioBuffer, timestamp |-> t])

\* ------------------------------------------------------------ the requests
Msg(role, content) == [role |-> role, content |-> content]

\* The request bodies the chat endpoint receives in the model.
ChatBodies ==
    { Body("", "absent", << >>),
      Body("a", "absent", << >>),
      Body("", "array", <<Msg("system", "S"), Msg("user", "a")>>),
      Body("", "array", <<Msg("developer", "S"), Msg("user", "a")>>) }

\* The request bodies {text, voice?} of the speech endpoint; voice "" stands
\* for an absent voice.
LmntBodies ==
    { [text |-> "", voice |-> ""],
      [text |-> "Hello", voice |-> ""],
      [text |-> "Hello", voice |-> "zoe"],
      [text |-> "Hi", voice |-> "lily"] }

\* What a provider answers: a completion of one of the two models, or an
\* audio buffer; every call answers with an object of its own, named by the
\* request that made the call.  NoValue is null / no response body.
NoValue == [model |-> "none", id |-> 0]
Completion(model, id) == [model |-> model, id |-> id]
AudioBuffer(key, id) == [model |-> "lmnt", id |-> id, audioFor |-> key]

\* A request before it is received, and after its handler has returned.
\* stale: the lookup found an entry under the key and did not serve it;
\* first: the call that settled first; calls: provider calls started so far.
IdleReq ==
    [endpoint |-> "none", pc |-> "idle", key |-> "", stale |-> FALSE,
     primary |-> "none", pval |-> NoValue,
     fallback |-> "none", fval |-> NoValue, first |-> "none", calls |-> 0]

DoneReq == [IdleReq EXCEPT !.pc = "done"]

\* The step just taken sent no response.  swept: the keys a sweep of this
\* step removed.
NoResponse ==
    [req |-> 0, endpoint |-> "none", key |-> "", status |-> 0, result |-> NoValue,
     hit |-> FALSE, calls |-> 0, primary |-> "none", fallback |-> "none",
     first |-> "none", mode |-> "none", evicted |-> {}, swept |-> {}]

\* A miss: no response yet, and what the sweep on the way removed from m.
Missed(m, m1) == [NoResponse EXCEPT !.swept = MapKeys(m) \ MapKeys(m1)]

Reqs == 1..MaxReqs

\* The requests of any behaviour: those of SpecStore go beyond MaxReqs.
AllReqs == 1..MaxStoreReqs

InFlight == {q \in AllReqs : reqs[q].pc \notin {"idle", "done"}}

\* Requests are numbered in the order they are received.
NextToArrive(r) ==
    /\ reqs[r].pc = "idle"
    /\ r > 1 => reqs[r - 1].pc # "idle"
    /\ (route = "chat" /\ parallelMode) => r <= MaxParallelReqs
    /\ Cardinality(InFlight) < MaxInFlight

\* The response is sent (NextResponse.json(...) / new Response(...)) and the
\* handler returns.
Respond(r, rec, status, result, hit, evicted) ==
    /\ reqs' = [reqs EXCEPT ![r] = DoneReq]
    /\ last' = [req |-> r, endpoint |-> rec.endpoint, key |-> rec.key,
                status |-> status, result |-> result, hit |-> hit,
                calls |-> rec.calls, primary |-> rec.primary,
                fallback |-> rec.fallback, first |-> rec.first,
                evicted |-> evicted, swept |-> {},
                mode |-> IF rec.endpoint # "chat" THEN "none"
                         ELSE IF parallelMode THEN "parallel" ELSE "sequential"]

\* History of the chat cache.  insOrder lists the keys present by the time of
\* their Map insertion (a store under a present key inserts nothing); firstOk
\* keeps, per key, the first provider answer stored in a window of
\* OPENAI_CACHE_EXPIRATION and the time it was stored, while the window is open.
OrderAfterDelete(m1) == SelectSeq(insOrder, LAMBDA k : k \in MapKeys(m1))

OrderAfterStore(m1, k) ==
    IF k \in MapKeys(m1) THEN OrderAfterDelete(m1)
    ELSE Append(OrderAfterDelete(m1), k)

WindowOpen(k, t) ==
    \E f \in firstOk : f.key = k /\ t - f.time < OPENAI_CACHE_EXPIRATION

FirstOkAfterStore(k, completion, t) ==
    IF WindowOpen(k, t) THEN firstOk
    ELSE {f \in firstOk : f.key # k}
            \cup {[key |-> k, value |-> completion, time |-> t]}

\* ------------------------------------------------------- chat route: POST
\* Mutation of the choice: the fallback preferred.
SelectCompletionFallbackFirst(p, pv, f, fv) ==
    IF f = "ok" /\ fv # NoValue THEN fv
    ELSE IF p = "ok" /\ pv # NoValue THEN pv
    ELSE NoValue

\* route.ts:191-199, the choice among the two settled calls.  A failed call
\* was turned into null by its .catch, so both promises are fulfilled.
SelectCompletion(p, pv, f, fv) ==
    IF p = "ok" /\ pv # NoValue THEN pv
    ELSE IF f = "ok" /\ fv # NoValue THEN fv
    ELSE NoValue

\* Mutation of the join: POST resumes as soon as the primary call has settled.
PrimarySettled(rec) == rec.primary # "pending"

\* route.ts:188, Promise.allSettled resumes POST once neither call is pending.
BothSettled(rec) == rec.primary # "pending" /\ rec.fallback # "pending"

\* route.ts:238-252 and 253-259: store and answer, or the 500 of the outer
\* catch.  A mutation stores whatever the calls left, a failure included.
ChatFinishCachesFailure(r, rec, completion) ==
    /\ responseCache' = StoreResponse(responseCache, rec.key, completion, now)
    /\ insOrder' = OrderAfterStore(EvictOldest(responseCache), rec.key)
    /\ firstOk' = FirstOkAfterStore(rec.key, completion, now)
    /\ Respond(r, rec, IF completion = NoValue THEN 500 ELSE 200, completion, FALSE,
               MapKeys(responseCache) \ MapKeys(EvictOldest(responseCache)))

ChatFinish(r, rec, completion) ==
    IF completion = NoValue
    THEN /\ Respond(r, rec, 500, NoValue, FALSE, {})
         /\ UNCHANGED <<responseCache, insOrder, firstOk>>
    ELSE /\ responseCache' = StoreResponse(responseCache, rec.key, completion, now)
         /\ insOrder' = OrderAfterStore(EvictOldest(responseCache), rec.key)
         /\ firstOk' = FirstOkAfterStore(rec.key, completion, now)
         /\ Respond(r, rec, 200, completion, FALSE,
                    MapKeys(responseCache) \ MapKeys(EvictOldest(responseCache)))

\* route.ts:149-151, the sweep on a miss: a mutation sweeps on every miss.
SweepOnMissAlways(m, t) == cleanupCache(m, t)

SweepOnMiss(m, t) ==
    IF 2 * Len(m) > config.OPENAI_CACHE_SIZE THEN cleanupCache(m, t) ELSE m

\* Mutation of the catch: the primary model is called again.
RetryPrimary(rec) ==
    [rec EXCEPT !.pc = "awaitPrimary", !.primary = "pending",
                !.calls = rec.calls + 1]

\* route.ts:215-233, sequential mode: the catch of the primary's failure
\* calls the fallback model.
StartFallback(rec) ==
    [rec EXCEPT !.pc = "awaitFallback", !.fallback = "pending",
                !.calls = rec.calls + 1]

\* route.ts:80-203 up to the first await on a provider.
ChatArrive(r, body) ==
    /\ route = "chat"
    /\ NextToArrive(r)
    /\ LET cacheKey == ChatCacheKey(body)
           rec == [reqs[r] EXCEPT !.endpoint = "chat"]
           keyed == [rec EXCEPT !.key = cacheKey,
                                !.stale = MapHas(responseCache, cacheKey)]
       IN  IF BodyRejected(body)
           THEN /\ Respond(r, rec, 400, NoValue, FALSE, {})
                /\ UNCHANGED <<responseCache, insOrder>>
           ELSE IF CacheLookupHit(responseCache, cacheKey, now)
           THEN /\ Respond(r, keyed, 200, MapGet(responseCache, cacheKey).value, TRUE, {})
                /\ responseCache' = CacheAfterHit(responseCache, cacheKey, now)
                /\ UNCHANGED insOrder
           ELSE /\ responseCache' = SweepOnMiss(responseCache, now)
                /\ insOrder' = OrderAfterDelete(SweepOnMiss(responseCache, now))
                /\ reqs' = [reqs EXCEPT ![r] =
                      IF parallelMode
                      THEN [keyed EXCEPT !.pc = "awaitBoth", !.primary = "pending",
                                         !.fallback = "pending", !.calls = 2]
                      ELSE [keyed EXCEPT !.pc = "awaitPrimary",
                                         !.primary = "pending", !.calls = 1]]
                /\ last' = Missed(responseCache, SweepOnMiss(responseCache, now))
    /\ UNCHANGED <<now, parallelMode, route, lmntCache, firstOk>>

\* The primary model's call settles: it answers (ok) or fails or times out.
\* route.ts:159-167 and 188-199 in parallel mode, 208-233 in sequential mode.
ChatPrimarySettle(r, ok) ==
    /\ reqs[r].endpoint = "chat"
    /\ reqs[r].primary = "pending"
    /\ LET rec == [reqs[r] EXCEPT
                      !.primary = IF ok THEN "ok" ELSE "fail",
                      !.pval = IF ok THEN Completion("primary", r) ELSE NoValue,
                      !.first = IF @ = "none" THEN "primary" ELSE @]
       IN  IF rec.pc = "awaitBoth"
           THEN IF BothSettled(rec)
                THEN ChatFinish(r, rec, SelectCompletion(rec.primary, rec.pval,
                                                         rec.fallback, rec.fval))
                ELSE /\ reqs' = [reqs EXCEPT ![r] = rec]
                     /\ last' = NoResponse
                     /\ UNCHANGED <<responseCache, insOrder, firstOk>>
           ELSE IF ok
                THEN ChatFinish(r, rec, rec.pval)
                ELSE /\ reqs' = [reqs EXCEPT ![r] = StartFallback(rec)]
                     /\ last' = NoResponse
                     /\ UNCHANGED <<responseCache, insOrder, firstOk>>
    /\ UNCHANGED <<now, parallelMode, route, lmntCache>>

\* The fallback model's call settles.
\* route.ts:169-185 and 188-199 in parallel mode, 228-234 in sequential mode.
ChatFallbackSettle(r, ok) ==
    /\ reqs[r].endpoint = "chat"
    /\ reqs[r].fallback = "pending"
    /\ LET rec == [reqs[r] EXCEPT
                      !.fallback = IF ok THEN "ok" ELSE "fail",
                      !.fval = IF ok THEN Completion("fallback", r) ELSE NoValue,
                      !.first = IF @ = "none" THEN "fallback" ELSE @]
       IN  IF rec.pc = "awaitBoth"
           THEN IF BothSettled(rec)
                THEN ChatFinish(r, rec, SelectCompletion(rec.primary, rec.pval,
                                                         rec.fallback, rec.fval))
                ELSE /\ reqs' = [reqs EXCEPT ![r] = rec]
                     /\ last' = NoResponse
                     /\ UNCHANGED <<responseCache, insOrder, firstOk>>
           ELSE ChatFinish(r, rec, rec.fval)
    /\ UNCHANGED <<now, parallelMode, route, lmntCache>>

\* ----------------------------------------------------- speech route: POST
\* part_001:117-119, the sweep on a miss.
LmntSweepOnMiss(m, t) ==
    IF 2 * Len(m) > LMNT_CACHE_SIZE THEN LmntCleanupCache(m, t) ELSE m

\* part_001:89-97, the credential guard: a mutation lets the request through.
MissingApiKeyIgnored(hasApiKey) == FALSE

MissingApiKey(hasApiKey) == ~hasApiKey

\* part_001:78-132 up to the await on the provider.
LmntArrive(r, body, hasApiKey) ==
    /\ route = "lmnt"
    /\ NextToArrive(r)
    /\ LET text == body.text
           voice == IF Truthy(body.voice) THEN body.voice ELSE DEFAULT_LMNT_VOICE
           cacheKey == LmntGenerateCacheKey(text, voice)
           rec == [reqs[r] EXCEPT !.endpoint = "lmnt"]
           keyed == [rec EXCEPT !.key = cacheKey]
       IN  IF ~Truthy(text)
           THEN /\ Respond(r, rec, 400, NoValue, FALSE, {})
                /\ UNCHANGED lmntCache
           ELSE IF MissingApiKey(hasApiKey)
           THEN /\ Respond(r, rec, 500, NoValue, FALSE, {})
                /\ UNCHANGED lmntCache
           ELSE IF LmntLookupHit(lmntCache, cacheKey, now)
           THEN /\ Respond(r, keyed, 200, MapGet(lmntCache, cacheKey).value, TRUE, {})
                /\ UNCHANGED lmntCache
           ELSE /\ lmntCache' = LmntSweepOnMiss(lmntCache, now)
                /\ reqs' = [reqs EXCEPT ![r] =
                              [keyed EXCEPT !.pc = "awaitGenerate",
                                            !.primary = "pending", !.calls = 1]]
                /\ last' = Missed(lmntCache, LmntSweepOnMiss(lmntCache, now))
    /\ UNCHANGED <<now, parallelMode, route, route, responseCache, insOrder, firstOk>>

\* part_001:128-132, lmnt.speech.generate settles; a failure is the 500 of
\* the catch at 160-166.
LmntGenerateSettle(r, ok) ==
    /\ reqs[r].pc = "awaitGenerate"
    /\ IF ok
       THEN /\ reqs' = [reqs EXCEPT ![r] = [reqs[r] EXCEPT !.pc = "awaitBuffer"]]
            /\ last' = NoResponse
       ELSE Respond(r, [reqs[r] EXCEPT !.primary = "fail"], 500, NoValue, FALSE, {})
    /\ UNCHANGED <<now, parallelMode, route, route, responseCache, lmntCache, insOrder, firstOk>>

\* part_001:135-159, response.arrayBuffer() settles: store and answer.
LmntBufferSettle(r, ok) ==
    /\ reqs[r].pc = "awaitBuffer"
    /\ IF ok
       THEN /\ lmntCache' = StoreAudio(lmntCache, reqs[r].key,
                                       AudioBuffer(reqs[r].key, r), now)
            /\ Respond(r, [reqs[r] EXCEPT !.primary = "ok"], 200,
                       AudioBuffer(reqs[r].key, r), FALSE,
                       MapKeys(lmntCache) \ MapKeys(LmntEvictOldest(lmntCache)))
       ELSE /\ Respond(r, [reqs[r] EXCEPT !.primary = "fail"], 500, NoValue, FALSE, {})
            /\ UNCHANGED lmntCache
    /\ UNCHANGED <<now, parallelMode, route, route, responseCache, insOrder, firstOk>>

\* Time passes.
Tick ==
    /\ now < MaxTime
    /\ now' = now + 1
    /\ firstOk' = {f \in firstOk : now + 1 - f.time < OPENAI_CACHE_EXPIRATION}
    /\ last' = NoResponse
    /\ UNCHANGED <<parallelMode, route, responseCache, lmntCache, reqs, insOrder>>

\* ------------------------------------------------ the client side, at rest
\* The speech step just taken: its kind, the utterance it belongs to, whether
\* starting on-device synthesis threw, and the speaking flag it found.
NoSpeechEvent == [kind |-> "none", utt |-> 0, threw |-> FALSE]

\* new Audio(): no source, nothing playing.
IdleAudio == [src |-> 0, state |-> "empty"]

\* ApiOptions.timeout: absent (undefined), or a number of ticks.
NoTimeout == [given |-> FALSE, ms |-> 0]
Ms(n) == [given |-> TRUE, ms |-> n]

\* No fetchWithTimeout call has been made.  options: what the caller passed;
\* controller: an AbortController of its own was created; timers: timers
\* started; timer: "none", "armed", "fired" or "cleared"; cleared:
\* clearTimeout was called; signal: the signal handed to fetch; contentType:
\* of the response; at: where the call stood when it settled; op: how the
\* operation itself ended.
IdleFetch ==
    [pc |-> "idle", options |-> [signal |-> FALSE, timeout |-> NoTimeout],
     controller |-> FALSE, timers |-> 0, delay |-> 0, timer |-> "none",
     cleared |-> FALSE, signal |-> "none", contentType |-> "none",
     at |-> "none", op |-> "none", result |-> "none"]

\* No chat request of the session is in flight.
NoChatReq == [pc |-> "none", message |-> "", sent |-> << >>]

NoSessionEvent == [kind |-> "none", message |-> ""]

PrepIdle == prepIn = << >> /\ prepOut = << >>

\* config.ts with the values of the model.
ShippedConfig ==
    [DISABLE_LMNT_ON_MOBILE |-> DISABLE_LMNT_ON_MOBILE,
     OPENAI_CACHE_SIZE |-> OPENAI_CACHE_SIZE]

\* The speech hook before the first speak().
HookIdle ==
    /\ device = [mobile |-> FALSE, synth |-> TRUE]
    /\ preferredGender = "male"
    /\ isSpeaking = FALSE
    /\ isLmntLoading = FALSE
    /\ nUtt = 0
    /\ timers = {}
    /\ calls = {}
    /\ synthQueue = << >>
    /\ cancelled = {}
    /\ audio = IdleAudio
    /\ preloadCalls = {}
    /\ speechLast = NoSpeechEvent

SpeechIdle == config = ShippedConfig /\ HookIdle

FetchIdle == fetchCall = IdleFetch /\ fetchClock = 0

SessionIdle ==
    /\ loading = FALSE
    /\ error = ""
    /\ conversationHistory = << >>
    /\ lastProcessedMessage = ""
    /\ chatReq = NoChatReq
    /\ sessionLast = NoSessionEvent

NormIdle == normIn = << >> /\ normOut = << >>

VoiceIdle == voiceIn = << >> /\ voiceOut = << >>

ClientIdle ==
    PrepIdle /\ SpeechIdle /\ FetchIdle /\ SessionIdle /\ NormIdle /\ VoiceIdle

\* ------------------------------------------------------- the specification
KeyIdle == keyIn = << >> /\ keyOut = << >>

\* The server after start-up: empty caches, no request received.
ServerInit ==
    /\ now = 0
    /\ route \in {"chat", "lmnt"}
    /\ parallelMode \in (IF route = "chat" THEN BOOLEAN ELSE {TRUE})
    /\ responseCache = << >>
    /\ lmntCache = << >>
    /\ reqs = [r \in AllReqs |-> IdleReq]
    /\ last = NoResponse
    /\ insOrder = << >>
    /\ firstOk = {}

Init == ServerInit /\ KeyIdle /\ ClientIdle

Next ==
    \/ \E r \in Reqs, body \in ChatBodies : ChatArrive(r, body) /\ UNCHANGED <<keyVars, clientVars>>
    \/ \E r \in Reqs, ok \in BOOLEAN : ChatPrimarySettle(r, ok) /\ UNCHANGED <<keyVars, clientVars>>
    \/ \E r \in Reqs, ok \in BOOLEAN : ChatFallbackSettle(r, ok) /\ UNCHANGED <<keyVars, clientVars>>
    \/ \E r \in Reqs, body \in LmntBodies, hasApiKey \in BOOLEAN :
          LmntArrive(r, body, hasApiKey) /\ UNCHANGED <<keyVars, clientVars>>
    \/ \E r \in Reqs, ok \in BOOLEAN : LmntGenerateSettle(r, ok) /\ UNCHANGED <<keyVars, clientVars>>
    \/ \E r \in Reqs, ok \in BOOLEAN : LmntBufferSettle(r, ok) /\ UNCHANGED <<keyVars, clientVars>>
    \/ Tick /\ UNCHANGED <<keyVars, clientVars>>

Spec == Init /\ [][Next]_vars

\* ----------------------------------------------- the cache keys, on inputs
\* Message lists of up to MaxMsgs messages, as a client may send them.
KeyRoles == {"system", "developer", "user"}
KeyContents == {"S", "a"}
KeyMessages == {Msg(role, content) : role \in KeyRoles, content \in KeyContents}
KeyMessageLists == UNION {[1..n -> KeyMessages] : n \in 0..MaxMsgs}

\* The list as an ApiMessage[] with flat string contents.
AsApiMessages(ms) ==
    [i \in 1..Len(ms) |-> [role |-> ms[i].role, content |-> StrContent(ms[i].content)]]

\* Both lists are keyed: by generateCacheKey itself, and by POST as the
\* messages of a request body.
ComputeKeys ==
    /\ keyIn # << >>
    /\ keyOut = << >>
    /\ keyOut' = [direct |-> <<generateCacheKey(AsApiMessages(keyIn[1])),
                               generateCacheKey(AsApiMessages(keyIn[2]))>>,
                  endpoint |-> <<ChatCacheKey(Body("", "array", keyIn[1])),
                                 ChatCacheKey(Body("", "array", keyIn[2]))>>]
    /\ UNCHANGED <<keyIn, serverVars, clientVars>>

KeyInit ==
    /\ ServerInit
    /\ route = "chat"
    /\ parallelMode
    /\ keyIn \in KeyMessageLists \X KeyMessageLists
    /\ keyOut = << >>
    /\ ClientIdle

KeyNext == ComputeKeys

SpecKey == KeyInit /\ [][KeyNext]_vars

\* ------------------------------------------ the audio cache keys, on inputs
\* Speech request bodies whose voice or text may hold the ':' of the key;
\* voice "" stands for an absent voice.
SpeechKeyVoices == {"", "lily", "a", "a:b"}
SpeechKeyTexts == {"Hello", "c", "b:c"}
SpeechKeyBodies ==
    {[text |-> text, voice |-> voice] :
        text \in SpeechKeyTexts, voice \in SpeechKeyVoices}

\* part_001:81-82 and 100, the voice and the key POST derives from a body.
VoiceOf(body) == IF Truthy(body.voice) THEN body.voice ELSE DEFAULT_LMNT_VOICE
LmntCacheKey(body) == LmntGenerateCacheKey(body.text, VoiceOf(body))

\* Two bodies are keyed as POST keys them.
ComputeSpeechKeys ==
    /\ keyIn # << >>
    /\ keyOut = << >>
    /\ keyOut' = [lmnt |-> <<LmntCacheKey(keyIn[1]), LmntCacheKey(keyIn[2])>>]
    /\ UNCHANGED <<keyIn, serverVars, clientVars>>

SpeechKeyInit ==
    /\ ServerInit
    /\ route = "lmnt"
    /\ keyIn \in SpeechKeyBodies \X SpeechKeyBodies
    /\ keyOut = << >>
    /\ ClientIdle

SpeechKeyNext == ComputeSpeechKeys

SpecSpeechKey == SpeechKeyInit /\ [][SpeechKeyNext]_vars

\* --------------------------- the chat cache with room for three entries
\* Prompts of four different cache keys.
StoreBodies == {Body(p, "absent", << >>) : p \in {"a", "b", "c", "d"}}

\* The chat route in sequential mode, built with a capacity of StoreCacheSize,
\* on days the primary model answers every call.
StoreInit ==
    /\ ServerInit
    /\ route = "chat"
    /\ ~parallelMode
    /\ KeyIdle
    /\ PrepIdle
    /\ config = [ShippedConfig EXCEPT !.OPENAI_CACHE_SIZE = StoreCacheSize]
    /\ HookIdle
    /\ FetchIdle
    /\ SessionIdle
    /\ NormIdle
    /\ VoiceIdle

StoreNext ==
    \/ \E r \in AllReqs, body \in StoreBodies :
          ChatArrive(r, body) /\ UNCHANGED <<keyVars, clientVars>>
    \/ \E r \in AllReqs :
          ChatPrimarySettle(r, TRUE) /\ UNCHANGED <<keyVars, clientVars>>
    \/ Tick /\ UNCHANGED <<keyVars, clientVars>>

SpecStore == StoreInit /\ [][StoreNext]_vars

\* ------------------------------------- the message preparation, on inputs
\* The server, untouched, while a client-side or pure part is exercised.
ServerAtRest == ServerInit /\ route = "chat" /\ parallelMode

\* Request bodies as a client may send them: with or without a prompt, and
\* with messages that are absent, an array, or something that is no array.
PrepBodies ==
    {Body(p, "array", ms) : p \in {"", "a"}, ms \in KeyMessageLists}
        \cup {Body(p, k, << >>) : p \in {"", "a"}, k \in {"absent", "other"}}

\* route.ts:83-136, POST up to the cache lookup: whether the body passes the
\* 400 guard, and the apiMessages prepared from it.
PrepareRequest ==
    /\ prepIn # << >>
    /\ prepOut = << >>
    /\ prepOut' = <<[accepted |-> ~BodyRejected(prepIn[1]),
                     apiMessages |-> PrepareMessages(prepIn[1])]>>
    /\ UNCHANGED <<prepIn, serverVars, keyVars, speechVars, fetchVars, sessionVars,
                   normVars, voiceVars>>

PrepInit ==
    /\ ServerAtRest
    /\ KeyIdle
    /\ SpeechIdle
    /\ FetchIdle
    /\ SessionIdle
    /\ NormIdle
    /\ VoiceIdle
    /\ prepIn \in {<<b>> : b \in PrepBodies}
    /\ prepOut = << >>

PrepNext == PrepareRequest

SpecPrep == PrepInit /\ [][PrepNext]_vars

\* ------------------------------------------------- the speech hook: speak
\* The hook useVoiceRecognition after its mount effects have run: the audio
\* element exists and carries its 'ended' and 'error' listeners.  An
\* utterance is named by the number of the speak() call that requested it,
\* which stands for its text.
Utts == 1..MaxSpeaks

\* preferredGender: 'female' takes the branches 'male' takes.
Genders == {"male", "lmnt"}

\* part_005:570, the routing test of speak.
UseNetworkVoiceAnyDevice(gender, isMobile) == gender = "lmnt"

UseNetworkVoice(gender, isMobile) == gender = "lmnt" /\ ~isMobile

\* apiUtils.ts:104, the test of preloadAPIs.
PreloadsLmnt(voiceGender, isMobile) == voiceGender = "lmnt" /\ ~isMobile

SpeechEvent(kind, u, threw) == [kind |-> kind, utt |-> u, threw |-> threw]

\* An utterance handed to window.speechSynthesis, by speak or as the
\* fallback of the network path.
Queued(u, fallback) == [utt |-> u, fallback |-> fallback]

QueueItems(q) == {q[i] : i \in 1..Len(q)}

\* audioElement.pause(): playback stops, no 'ended' event follows.
Paused(a) == IF a.state = "playing" THEN [a EXCEPT !.state = "paused"] ELSE a

\* part_005:487-490, the speaking flag after the fallback's start has thrown.
SpeakingAfterFallbackThrowKept(speaking) == speaking

SpeakingAfterFallbackThrow(speaking) == FALSE

\* part_005:565-681 speak, with 277-367 speakWithLMNT up to its await.
Speak(u) ==
    /\ u = nUtt + 1
    /\ u <= MaxSpeaks
    /\ nUtt' = u
    /\ IF UseNetworkVoice(preferredGender, device.mobile)
       THEN \* speakWithLMNT: speaking, then loading, pause, callLMNT
            /\ isSpeaking' = TRUE
            /\ isLmntLoading' = TRUE
            /\ audio' = Paused(audio)
            /\ calls' = calls \cup {u}
            /\ speechLast' = SpeechEvent("speakLmnt", u, FALSE)
            /\ UNCHANGED <<timers, synthQueue, cancelled>>
       ELSE IF device.synth
       THEN \* browser TTS: speaking, cancel(), start timer of 250 ms
            /\ isSpeaking' = TRUE
            /\ cancelled' = cancelled \cup QueueItems(synthQueue)
            /\ synthQueue' = << >>
            /\ timers' = timers \cup {u}
            /\ speechLast' = SpeechEvent("speakTts", u, FALSE)
            /\ UNCHANGED <<isLmntLoading, audio, calls>>
       ELSE \* no speech synthesis in this browser
            /\ isSpeaking' = FALSE
            /\ speechLast' = SpeechEvent("speakUnsupported", u, FALSE)
            /\ UNCHANGED <<isLmntLoading, audio, calls, timers, synthQueue, cancelled>>
    /\ UNCHANGED <<config, device, preferredGender, preloadCalls>>

\* part_005:669-676, the start timer fires: timers of equal delay fire in the
\* order they were set.  speechSynthesis.speak may throw.
TimerFire(u, throws) ==
    /\ u \in timers
    /\ \A v \in timers : u <= v
    /\ timers' = timers \ {u}
    /\ IF throws
       THEN /\ isSpeaking' = FALSE
            /\ UNCHANGED synthQueue
       ELSE /\ synthQueue' = Append(synthQueue, Queued(u, FALSE))
            /\ UNCHANGED isSpeaking
    /\ speechLast' = SpeechEvent("timer", u, throws)
    /\ UNCHANGED <<config, device, preferredGender, isLmntLoading, nUtt, calls, cancelled,
                   audio, preloadCalls>>

\* The outcomes of the network leg: the audio arrives and plays, or its play()
\* is rejected; the call fails and the fallback utterance is started, or
\* starting it throws (always so where there is no speech synthesis).
LmntOutcomes ==
    {"played", "playRejected"}
        \cup (IF device.synth THEN {"fallback", "fallbackThrew"} ELSE {"fallbackThrew"})

\* part_005:367-491, callLMNT settles and speakWithLMNT resumes.
LmntSettle(u, outcome) ==
    /\ u \in calls
    /\ outcome \in LmntOutcomes
    /\ calls' = calls \ {u}
    /\ isLmntLoading' = FALSE
    /\ CASE outcome = "played" ->
              /\ audio' = [src |-> u, state |-> "playing"]
              /\ speechLast' = SpeechEvent("lmntOk", u, FALSE)
              /\ UNCHANGED <<isSpeaking, synthQueue>>
         [] outcome = "playRejected" ->
              /\ audio' = [src |-> u, state |-> "error"]
              /\ isSpeaking' = FALSE
              /\ speechLast' = SpeechEvent("lmntOk", u, FALSE)
              /\ UNCHANGED synthQueue
         [] outcome = "fallback" ->
              /\ synthQueue' = Append(synthQueue, Queued(u, TRUE))
              /\ speechLast' = SpeechEvent("lmntFail", u, FALSE)
              /\ UNCHANGED <<isSpeaking, audio>>
         [] outcome = "fallbackThrew" ->
              /\ isSpeaking' = SpeakingAfterFallbackThrow(isSpeaking)
              /\ speechLast' = SpeechEvent("lmntFail", u, TRUE)
              /\ UNCHANGED <<synthQueue, audio>>
    /\ UNCHANGED <<config, device, preferredGender, nUtt, timers, cancelled, preloadCalls>>

\* part_005:474-481 and 637-660, the utterance being spoken ends or fails:
\* its onend / onerror handler runs and the next of the queue is spoken.
SynthEnd ==
    /\ synthQueue # << >>
    /\ synthQueue' = Tail(synthQueue)
    /\ isSpeaking' = FALSE
    /\ speechLast' = SpeechEvent(IF Head(synthQueue).fallback THEN "fallbackEnd"
                                 ELSE "synthEnd", Head(synthQueue).utt, FALSE)
    /\ UNCHANGED <<config, device, preferredGender, isLmntLoading, nUtt, timers, calls,
                   cancelled, audio, preloadCalls>>

\* The platform reports an utterance that cancel() removed, with its error
\* (or end) event; a platform may also report nothing.
CancelledEvent(item) ==
    /\ item \in cancelled
    /\ cancelled' = cancelled \ {item}
    /\ isSpeaking' = FALSE
    /\ speechLast' = SpeechEvent("cancelEvent", item.utt, FALSE)
    /\ UNCHANGED <<config, device, preferredGender, isLmntLoading, nUtt, timers, calls,
                   synthQueue, audio, preloadCalls>>

\* part_005:73-79, the audio element's 'ended' or 'error' listener.
AudioEnd ==
    /\ audio.state = "playing"
    /\ audio' = [audio EXCEPT !.state = "ended"]
    /\ isSpeaking' = FALSE
    /\ speechLast' = SpeechEvent("audioEnd", audio.src, FALSE)
    /\ UNCHANGED <<config, device, preferredGender, isLmntLoading, nUtt, timers, calls,
                   synthQueue, cancelled, preloadCalls>>

\* JarvisInterface.tsx:95, setVoiceGender: the user picks another voice.
ChangeVoice(g) ==
    /\ g # preferredGender
    /\ preferredGender' = g
    /\ speechLast' = SpeechEvent("voice", 0, FALSE)
    /\ UNCHANGED <<config, device, isSpeaking, isLmntLoading, nUtt, timers, calls,
                   synthQueue, cancelled, audio, preloadCalls>>

\* apiUtils.ts:89-113 preloadAPIs(voiceGender, isMobile), called once with the
\* device's classification; the answers of the warm-up calls are dropped.
Preload ==
    /\ preloadCalls = {}
    /\ preloadCalls' = {"openai"} \cup
          (IF PreloadsLmnt(preferredGender, device.mobile) THEN {"lmnt"} ELSE {})
    /\ speechLast' = SpeechEvent("preload", 0, FALSE)
    /\ UNCHANGED <<config, device, preferredGender, isSpeaking, isLmntLoading, nUtt, timers,
                   calls, synthQueue, cancelled, audio>>

SpeechInit ==
    /\ ServerAtRest
    /\ KeyIdle
    /\ PrepIdle
    /\ FetchIdle
    /\ SessionIdle
    /\ NormIdle
    /\ VoiceIdle
    /\ config \in {[ShippedConfig EXCEPT !.DISABLE_LMNT_ON_MOBILE = b] : b \in BOOLEAN}
    /\ device \in [mobile : BOOLEAN, synth : BOOLEAN]
    /\ preferredGender = "male"
    /\ isSpeaking = FALSE
    /\ isLmntLoading = FALSE
    /\ nUtt = 0
    /\ timers = {}
    /\ calls = {}
    /\ synthQueue = << >>
    /\ cancelled = {}
    /\ audio = IdleAudio
    /\ preloadCalls = {}
    /\ speechLast = NoSpeechEvent

SpeechRest ==
    UNCHANGED <<serverVars, keyVars, prepVars, fetchVars, sessionVars, normVars, voiceVars>>

SpeechNext ==
    \/ \E u \in Utts : Speak(u) /\ SpeechRest
    \/ \E u \in Utts, throws \in BOOLEAN : TimerFire(u, throws) /\ SpeechRest
    \/ \E u \in Utts, outcome \in {"played", "playRejected", "fallback", "fallbackThrew"} :
          LmntSettle(u, outcome) /\ SpeechRest
    \/ SynthEnd /\ SpeechRest
    \/ \E item \in cancelled : CancelledEvent(item) /\ SpeechRest
    \/ AudioEnd /\ SpeechRest
    \/ \E g \in Genders : ChangeVoice(g) /\ SpeechRest
    \/ Preload /\ SpeechRest

SpecSpeech == SpeechInit /\ [][SpeechNext]_vars

\* The platform and the network keep their promises: a timer that was set
\* fires, a call settles, a playback that was started ends or fails.
SpeechFairness ==
    /\ WF_vars(\E u \in Utts, throws \in BOOLEAN : TimerFire(u, throws) /\ SpeechRest)
    /\ WF_vars(\E u \in Utts, outcome \in {"played", "playRejected", "fallback", "fallbackThrew"} :
                  LmntSettle(u, outcome) /\ SpeechRest)
    /\ WF_vars(SynthEnd /\ SpeechRest)
    /\ WF_vars(AudioEnd /\ SpeechRest)

SpecSpeechLive == SpecSpeech /\ SpeechFairness

\* ------------------------------------------------ apiUtils: fetchWithTimeout
\* The options a caller may pass: with or without a signal of its own, with
\* no timeout, a short one or a long one.
FetchOptions ==
    {[signal |-> sg, timeout |-> t] : sg \in BOOLEAN, t \in {NoTimeout, Ms(1), Ms(3)}}

\* apiUtils.ts:73-84 callLMNT (and 57-68 callOpenAI): timeout and signal of
\* the caller's options are handed on as they are, absent ones as undefined.
callLMNT(options) == [signal |-> options.signal, timeout |-> options.timeout]

\* apiUtils.ts:22, the destructuring default.
EffectiveTimeout(options) ==
    IF options.timeout.given THEN options.timeout.ms ELSE FETCH_TIMEOUT

\* apiUtils.ts:25, a controller of its own unless the caller gave a signal.
OwnControllerAlways(options) == TRUE

OwnController(options) == ~options.signal

\* apiUtils.ts:27, controller.abort(): the pending fetch or body read rejects.
AbortIgnored(call) == call

AbortOperation(call) == [call EXCEPT !.op = "aborted"]

\* apiUtils.ts:49-51, the finally block.
FinallySkipped(call) == call

Finally(call) ==
    IF call.timers > 0
    THEN [call EXCEPT !.cleared = TRUE,
                      !.timer = IF @ = "armed" THEN "cleared" ELSE @]
    ELSE call

\* The call settles: the promise of fetchWithTimeout is fulfilled or rejected
\* after the finally block has run.
Settled(call, op, result) ==
    Finally([call EXCEPT !.at = call.pc, !.pc = "settled", !.op = op,
                         !.result = result])

\* apiUtils.ts:18-34, fetchWithTimeout up to its await on fetch.
FetchStart(options) ==
    /\ fetchCall.pc = "idle"
    /\ LET opts == callLMNT(options)
           controller == OwnController(opts)
       IN  fetchCall' =
              [IdleFetch EXCEPT
                 !.pc = "fetching",
                 !.options = opts,
                 !.controller = controller,
                 !.timers = IF controller THEN 1 ELSE 0,
                 !.delay = IF controller THEN EffectiveTimeout(opts) ELSE 0,
                 !.timer = IF controller THEN "armed" ELSE "none",
                 !.signal = IF opts.signal THEN "caller"
                            ELSE IF controller THEN "own" ELSE "none",
                 !.op = "pending"]
    /\ fetchClock' = 0

\* Time passes while the call is pending.
FetchTick ==
    /\ fetchCall.pc \in {"fetching", "reading"}
    /\ fetchClock < MaxFetchClock
    /\ fetchClock' = fetchClock + 1
    /\ UNCHANGED fetchCall

\* apiUtils.ts:31-48, fetch settles: a response that is ok, whose body is then
\* read according to its content type; a response that is not ok; or a
\* network error.
FetchResponds(kind, contentType) ==
    /\ fetchCall.pc = "fetching"
    /\ fetchCall' =
          IF kind = "ok"
          THEN [fetchCall EXCEPT !.pc = "reading", !.contentType = contentType]
          ELSE Settled(fetchCall, "fail", "error")
    /\ UNCHANGED fetchClock

\* apiUtils.ts:42-48, response.json() / arrayBuffer() / text() settles.
BodySettles(ok) ==
    /\ fetchCall.pc = "reading"
    /\ fetchCall' =
          IF ok
          THEN Settled(fetchCall, "ok",
                       CASE fetchCall.contentType = "json" -> "object"
                         [] fetchCall.contentType = "audio" -> "arrayBuffer"
                         [] OTHER -> "text")
          ELSE Settled(fetchCall, "fail", "error")
    /\ UNCHANGED fetchClock

\* apiUtils.ts:27, the timer fires when its delay has elapsed: the controller
\* aborts, the pending operation rejects and the call settles with it.
TimerFires ==
    /\ fetchCall.timer = "armed"
    /\ fetchClock >= fetchCall.delay
    /\ LET fired == AbortOperation([fetchCall EXCEPT !.timer = "fired"])
       IN  fetchCall' = IF fired.op = "aborted"
                        THEN Settled(fired, "aborted", "error")
                        ELSE fired
    /\ UNCHANGED fetchClock

\* The caller aborts through the signal it supplied.
ExternalAbort ==
    /\ fetchCall.signal = "caller"
    /\ fetchCall.pc \in {"fetching", "reading"}
    /\ fetchCall' = Settled(fetchCall, "aborted", "error")
    /\ UNCHANGED fetchClock

FetchInit ==
    /\ ServerAtRest
    /\ KeyIdle
    /\ PrepIdle
    /\ SpeechIdle
    /\ SessionIdle
    /\ NormIdle
    /\ VoiceIdle
    /\ FetchIdle

FetchRest ==
    UNCHANGED <<serverVars, keyVars, prepVars, speechVars, sessionVars, normVars, voiceVars>>

FetchNext ==
    \/ \E options \in FetchOptions : FetchStart(options) /\ FetchRest
    \/ FetchTick /\ FetchRest
    \/ \E kind \in {"ok", "notOk", "networkError"}, contentType \in {"json", "audio", "other"} :
          FetchResponds(kind, contentType) /\ FetchRest
    \/ \E ok \in BOOLEAN : BodySettles(ok) /\ FetchRest
    \/ TimerFires /\ FetchRest
    \/ ExternalAbort /\ FetchRest

SpecFetch == FetchInit /\ [][FetchNext]_vars

\* ------------------------------------- the session: handleUserMessage
\* What the user submits: two texts, and one of blanks only.
UserTexts == {"a", "b", " "}

\* String.prototype.trim on the texts of the model.
Trim(t) == IF t = " " THEN "" ELSE t

\* JarvisInterface.tsx:181-185, the session's system message.
SessionSystemMessage == Msg("system", "You are Jarvis")

\* JarvisInterface.tsx:255
CommunicationError == "Error communicating with Jarvis. Please try again."

\* The reply text taken from a response of the chat endpoint.
ReplyText == "r"

\* JarvisInterface.tsx:189, apiMessages.slice(-9) when longer than 9: a
\* mutation keeps the oldest nine, slice(0, 9).
RecentMessagesOldest(ms) ==
    IF Len(ms) > MAX_RECENT_MESSAGES
    THEN SubSeq(ms, 1, MAX_RECENT_MESSAGES)
    ELSE ms

RecentMessages(ms) ==
    IF Len(ms) > MAX_RECENT_MESSAGES
    THEN SubSeq(ms, Len(ms) - MAX_RECENT_MESSAGES + 1, Len(ms))
    ELSE ms

\* JarvisInterface.tsx:169-192, the list sent for a message.
LimitedMessages(history, message) ==
    <<SessionSystemMessage>> \o RecentMessages(Append(history, Msg("user", message)))

\* JarvisInterface.tsx:253-256, the history after the catch block: a mutation
\* drops the message the failed request was sent for.
HistoryAfterFailureDropsLast(history) == SubSeq(history, 1, Len(history) - 1)

HistoryAfterFailure(history) == history

\* JarvisInterface.tsx:151, the guard's test of the loading flag: a mutation
\* lets a message through while a request is in flight.
RequestInFlightIgnored(isLoading) == FALSE

RequestInFlight(isLoading) == isLoading

\* JarvisInterface.tsx:149-200, handleUserMessage up to its await on fetch.
HandleUserMessage(message) ==
    /\ Len(conversationHistory) + 2 <= MaxHistory
    /\ IF ~Truthy(Trim(message)) \/ RequestInFlight(loading)
          \/ message = lastProcessedMessage
       THEN /\ sessionLast' = [kind |-> "ignored", message |-> message]
            /\ UNCHANGED <<loading, error, conversationHistory, lastProcessedMessage,
                           chatReq>>
       ELSE /\ lastProcessedMessage' = message
            /\ loading' = TRUE
            /\ error' = ""
            /\ conversationHistory' = Append(conversationHistory, Msg("user", message))
            /\ chatReq' = [pc |-> "awaitFetch", message |-> message,
                           sent |-> LimitedMessages(conversationHistory, message)]
            /\ sessionLast' = [kind |-> "sent", message |-> message]

\* JarvisInterface.tsx:253-258, catch and finally.
ChatFailed ==
    /\ error' = CommunicationError
    /\ loading' = FALSE
    /\ conversationHistory' = HistoryAfterFailure(conversationHistory)
    /\ chatReq' = NoChatReq
    /\ sessionLast' = [kind |-> "failed", message |-> chatReq.message]
    /\ UNCHANGED lastProcessedMessage

\* JarvisInterface.tsx:194-206, fetch settles: an ok response, whose JSON is
\* then read, a response that is not ok, or a network error.
ChatFetchSettles(kind) ==
    /\ chatReq.pc = "awaitFetch"
    /\ IF kind = "ok"
       THEN /\ chatReq' = [chatReq EXCEPT !.pc = "awaitJson"]
            /\ sessionLast' = [kind |-> "response", message |-> chatReq.message]
            /\ UNCHANGED <<loading, error, conversationHistory, lastProcessedMessage>>
       ELSE ChatFailed

\* JarvisInterface.tsx:206-258, response.json() settles: the reply is appended
\* and spoken, or the read failed.
ChatJsonSettles(ok) ==
    /\ chatReq.pc = "awaitJson"
    /\ IF ok
       THEN /\ conversationHistory' = Append(conversationHistory, Msg("assistant", ReplyText))
            /\ loading' = FALSE
            /\ chatReq' = NoChatReq
            /\ sessionLast' = [kind |-> "replied", message |-> chatReq.message]
            /\ UNCHANGED <<error, lastProcessedMessage>>
       ELSE ChatFailed

SessionInit ==
    /\ ServerAtRest
    /\ KeyIdle
    /\ PrepIdle
    /\ SpeechIdle
    /\ FetchIdle
    /\ SessionIdle
    /\ NormIdle
    /\ VoiceIdle

SessionRest ==
    UNCHANGED <<serverVars, keyVars, prepVars, speechVars, fetchVars, normVars, voiceVars>>

SessionNext ==
    \/ \E message \in UserTexts : HandleUserMessage(message) /\ SessionRest
    \/ \E kind \in {"ok", "notOk", "networkError"} : ChatFetchSettles(kind) /\ SessionRest
    \/ \E ok \in BOOLEAN : ChatJsonSettles(ok) /\ SessionRest

SpecSession == SessionInit /\ [][SessionNext]_vars

\* ------------------------------- the reply normalizers, on response bodies
\* JSON values as the normalizers tell them apart: absent, null, a string, a
\* number, an object with no text, and an array by its first element.
Undefined == [kind |-> "undefined", item |-> "", text |-> ""]
Null == [kind |-> "null", item |-> "", text |-> ""]
Str(t) == [kind |-> "string", item |-> "", text |-> t]
Num(t) == [kind |-> "number", item |-> "", text |-> t]
Obj == [kind |-> "object", item |-> "", text |-> ""]
\* [] is Arr("empty", ""), [{}] is Arr("noText", ""), [{text: t}] is Arr("text", t).
Arr(item, t) == [kind |-> "array", item |-> item, text |-> t]

\* JavaScript truthiness of such a value.
JsTruthy(v) ==
    CASE v.kind \in {"undefined", "null"} -> FALSE
      [] v.kind = "string" -> v.text # ""
      [] v.kind = "number" -> v.text # "0"
      [] OTHER -> TRUE

\* route.ts:56, 77 and JarvisInterface.tsx:214, 223, 227, 230.
NoProperResponse == Str("Sorry, I did not receive a proper response.")
UnknownFormat == Str("Sorry, I could not understand the response format.")
CouldNotProcess == Str("Sorry, I could not process that.")

\* What a normalizer leaves behind when it throws: data.choices of null.
TypeError == [kind |-> "TypeError", item |-> "", text |-> ""]

\* Array.isArray(content) && content[0] && content[0].text
HasFirstText(content) ==
    content.kind = "array" /\ content.item = "text" /\ Truthy(content.text)

\* route.ts:68-75 and JarvisInterface.tsx:217-224, the text of a content that
\* sits on the choice: a mutation hands back a content of any other type.
ChoiceContentTextRaw(content, otherwise) ==
    IF HasFirstText(content) THEN Str(content.text) ELSE content

ChoiceContentText(content, otherwise) ==
    IF HasFirstText(content) THEN Str(content.text)
    ELSE IF content.kind = "string" THEN content
    ELSE otherwise

\* A choice and a response body. choices is "absent", "empty" for [],
\* "nullFirst" for [null], or "one" for [choice].
Choice(message, content) == [message |-> message, content |-> content]
NoMessage == [kind |-> "undefined", content |-> Undefined]
NullMessage == [kind |-> "null", content |-> Undefined]
Message(content) == [kind |-> "object", content |-> content]
NoChoice == Choice(NoMessage, Undefined)
Data(kind, choices, choice) == [kind |-> kind, choices |-> choices, choice |-> choice]

\* route.ts:54-78
extractResponseText(data) ==
    IF data.kind = "null" \/ data.choices # "one"
    THEN NoProperResponse
    ELSE LET choice == data.choice
         IN  IF choice.message.kind = "object" /\ JsTruthy(choice.message.content)
             THEN choice.message.content
             ELSE IF choice.message.kind = "null" /\ JsTruthy(choice.content)
             THEN ChoiceContentText(choice.content, UnknownFormat)
             ELSE UnknownFormat

\* JarvisInterface.tsx:210-231, the value assigned to responseText.
responseText(data) ==
    IF data.kind = "null"
    THEN TypeError
    ELSE IF data.choices # "one"
    THEN NoProperResponse
    ELSE LET choice == data.choice
         IN  IF choice.message.kind = "object"
             THEN IF JsTruthy(choice.message.content)
                  THEN choice.message.content
                  ELSE CouldNotProcess
             ELSE IF choice.message.kind = "null" /\ JsTruthy(choice.content)
             THEN ChoiceContentText(choice.content, CouldNotProcess)
             ELSE UnknownFormat

\* The values a message or choice may carry as its content.
JsContents ==
    {Undefined, Null, Str(""), Str("Hi there!"), Num("0"), Num("5"), Obj,
     Arr("empty", ""), Arr("noText", ""), Arr("text", ""), Arr("text", "Hi there!")}

JsMessages == {NoMessage, NullMessage} \cup {Message(c) : c \in JsContents}

ResponseBodies ==
    {Data("null", "absent", NoChoice)}
        \cup {Data("object", c, NoChoice) : c \in {"absent", "empty", "nullFirst"}}
        \cup {Data("object", "one", Choice(m, c)) : m \in JsMessages, c \in JsContents}

\* JarvisInterface.tsx:206-258 after response.json(): the reply text is
\* extracted and appended as the assistant message, or the catch block sets
\* the error; beside it, what route.ts extractResponseText makes of the body.
NormalizeResponse ==
    /\ normIn # << >>
    /\ normOut = << >>
    /\ LET text == responseText(normIn[1])
           threw == text = TypeError
       IN  normOut' = <<[server |-> extractResponseText(normIn[1]),
                         client |-> text,
                         appended |-> IF threw THEN << >>
                                      ELSE <<[role |-> "assistant", content |-> text]>>,
                         error |-> IF threw THEN CommunicationError ELSE ""]>>
    /\ UNCHANGED <<normIn, serverVars, keyVars, prepVars, speechVars, fetchVars,
                   sessionVars, voiceVars>>

NormInit ==
    /\ ServerAtRest
    /\ KeyIdle
    /\ PrepIdle
    /\ SpeechIdle
    /\ FetchIdle
    /\ SessionIdle
    /\ VoiceIdle
    /\ normIn \in {<<d>> : d \in ResponseBodies}
    /\ normOut = << >>

NormNext == NormalizeResponse

SpecNorm == NormInit /\ [][NormNext]_vars

\* ------------------------------------ the speech hook: findVoiceByGender
\* Names and language tags are the sequences of their characters.
Includes(s, sub) ==
    \E i \in 1..(Len(s) - Len(sub) + 1) : SubSeq(s, i, i + Len(sub) - 1) = sub

StartsWith(s, prefix) ==
    Len(s) >= Len(prefix) /\ SubSeq(s, 1, Len(prefix)) = prefix

\* String.prototype.toLowerCase on the letters of the model's names.
LowerChar(c) ==
    CASE c = "F" -> "f" [] c = "M" -> "m" [] c = "W" -> "w" [] c = "Z" -> "z"
      [] OTHER -> c

ToLowerCase(s) == [i \in 1..Len(s) |-> LowerChar(s[i])]

\* part_005:237-238
maleKeywords ==
    << <<"m","a","l","e">>, <<"g","u","y">>, <<"m","a","n">>, <<"b","o","y">>,
       <<"d","a","v","i","d">>, <<"j","a","m","e","s">>, <<"t","o","m">>,
       <<"d","a","n","i","e","l">> >>

femaleKeywords ==
    << <<"f","e","m","a","l","e">>, <<"w","o","m","a","n">>, <<"g","i","r","l">>,
       <<"l","a","d","y">>, <<"s","a","m","a","n","t","h","a">>,
       <<"v","i","c","t","o","r","i","a">>, <<"l","i","n","d","a">>,
       <<"k","a","r","e","n">>, <<"l","i","s","a">> >>

\* keywords.some(keyword => v.name.toLowerCase().includes(keyword))
SomeKeyword(keywords, name) ==
    \E k \in 1..Len(keywords) : Includes(ToLowerCase(name), keywords[k])

En == <<"e","n">>

\* A SpeechSynthesisVoice; NoVoice is undefined.
Voice(name, lang) == [name |-> name, lang |-> lang]
NoVoice == Voice(<< >>, << >>)

\* Array.prototype.find with a test given as the set of voices passing it.
Find(vs, passing) ==
    IF \E i \in 1..Len(vs) : vs[i] \in passing
    THEN vs[CHOOSE i \in 1..Len(vs) :
                /\ vs[i] \in passing
                /\ \A j \in 1..(i - 1) : vs[j] \notin passing]
    ELSE NoVoice

VoicesOf(vs) == {vs[i] : i \in 1..Len(vs)}

\* part_005:233-274
findVoiceByGender(vs, gender) ==
    LET keywords == IF gender = "male" THEN maleKeywords ELSE femaleKeywords
        byKeywordEn == Find(vs, {v \in VoicesOf(vs) :
                                    StartsWith(v.lang, En) /\ SomeKeyword(keywords, v.name)})
        byKeyword == Find(vs, {v \in VoicesOf(vs) : SomeKeyword(keywords, v.name)})
        byEn == Find(vs, {v \in VoicesOf(vs) : StartsWith(v.lang, En)})
    IN  IF byKeywordEn # NoVoice THEN byKeywordEn
        ELSE IF byKeyword # NoVoice THEN byKeyword
        ELSE IF byEn # NoVoice THEN byEn
        ELSE IF Len(vs) > 0 THEN vs[1]
        ELSE NoVoice

\* The voices a platform may list: named Male, Female, Woman or Zira, English
\* or French.
VoiceNames ==
    { <<"M","a","l","e">>, <<"F","e","m","a","l","e">>, <<"W","o","m","a","n">>,
      <<"Z","i","r","a">> }
VoiceLangs == { <<"e","n","-","U","S">>, <<"f","r","-","F","R">> }
PlatformVoices == {Voice(name, lang) : name \in VoiceNames, lang \in VoiceLangs}
VoiceLists == UNION {[1..n -> PlatformVoices] : n \in 0..MaxVoices}

\* speak's call of findVoiceByGender, part_005:627.
SelectVoice ==
    /\ voiceIn # << >>
    /\ voiceOut = << >>
    /\ voiceOut' = <<findVoiceByGender(voiceIn[1].voices, voiceIn[1].gender)>>
    /\ UNCHANGED <<voiceIn, serverVars, keyVars, prepVars, speechVars, fetchVars,
                   sessionVars, normVars>>

VoiceInit ==
    /\ ServerAtRest
    /\ KeyIdle
    /\ PrepIdle
    /\ SpeechIdle
    /\ FetchIdle
    /\ SessionIdle
    /\ NormIdle
    /\ voiceIn \in {<<[voices |-> vs, gender |-> g]>> :
                       vs \in VoiceLists, g \in {"male", "female"}}
    /\ voiceOut = << >>

VoiceNext == SelectVoice

SpecVoice == VoiceInit /\ [][VoiceNext]_vars

\* =================================================================== claims
\* A request is received in this step / is answered in this step.
Arrives(r) == reqs[r].pc = "idle" /\ reqs'[r].pc # "idle"
Answered(r) == reqs[r].pc # "done" /\ reqs'[r].pc = "done"

\* The key of the request received in this step.
ArrivedKey(r) == IF reqs'[r].pc = "done" THEN last'.key ELSE reqs'[r].key

\* The step answers a chat request with a provider's response and stores it.
ChatStores ==
    \E r \in Reqs : Answered(r) /\ last'.endpoint = "chat"
                    /\ last'.status = 200 /\ ~last'.hit

CacheKeyOrder(m) == [i \in 1..Len(m) |-> m[i].key]

\* C1: neither cache ever holds more entries than its capacity, in
\* particular right after an insert, under every interleaving of requests.
C1_CapacityInvariant ==
    /\ Len(responseCache) <= OPENAI_CACHE_SIZE
    /\ Len(lmntCache) <= LMNT_CACHE_SIZE

\* An insert into the full audio cache has just evicted an entry.
C1_Witness ==
    /\ last.endpoint = "lmnt"
    /\ last.status = 200
    /\ last.evicted # {}
    /\ Len(lmntCache) = LMNT_CACHE_SIZE

\* C2: an insert that finds the chat cache at capacity removes exactly one
\* entry, the one whose key was inserted earliest among those present, and
\* an insert below capacity removes none.
C2_EvictsEarliestInserted ==
    [][ChatStores =>
         /\ insOrder = CacheKeyOrder(responseCache)
         /\ IF Len(responseCache) >= OPENAI_CACHE_SIZE
            THEN /\ last'.evicted = {Head(insOrder)}
                 /\ MapKeys(responseCache') =
                      (MapKeys(responseCache) \ {Head(insOrder)}) \cup {last'.key}
            ELSE /\ last'.evicted = {}
                 /\ MapKeys(responseCache') = MapKeys(responseCache) \cup {last'.key}
       ]_vars

\* Capacity + 1 distinct keys were stored in a row: the first is gone, the
\* others remain (capacity 2: A, B, C leaves B and C).
C2_Witness ==
    /\ last.endpoint = "chat"
    /\ last.status = 200
    /\ Len(responseCache) = OPENAI_CACHE_SIZE
    /\ Cardinality(last.evicted) = 1
    /\ last.key \notin last.evicted
    /\ last.evicted \cap MapKeys(responseCache) = {}
    /\ responseCache[Len(responseCache)].key = last.key

\* C3: the chat lookup serves an entry of the map exactly while its age is
\* below OPENAI_CACHE_EXPIRATION: a request whose key has an entry of age
\* < E is answered with that entry's response, and one whose entry has age
\* >= E is not answered from the cache.
C3_ChatExpiry ==
    [][\A r \in Reqs :
          (Arrives(r) /\ route = "chat" /\ MapHas(responseCache, ArrivedKey(r))) =>
             LET e == MapGet(responseCache, ArrivedKey(r))
                 served == reqs'[r].pc = "done" /\ last'.hit
             IN  IF now - e.timestamp < OPENAI_CACHE_EXPIRATION
                 THEN served /\ last'.status = 200 /\ last'.result = e.value
                 ELSE ~served
       ]_vars

\* A request went upstream although the map still holds an expired entry
\* under its key.
C3_Witness ==
    \E r \in Reqs :
        /\ reqs[r].endpoint = "chat"
        /\ reqs[r].stale
        /\ reqs[r].primary = "pending"
        /\ MapHas(responseCache, reqs[r].key)
        /\ now - MapGet(responseCache, reqs[r].key).timestamp >= OPENAI_CACHE_EXPIRATION

\* C4: the speech lookup never serves an entry whose age is
\* >= LMNT_CACHE_EXPIRATION.
C4_AudioExpiry ==
    [][\A r \in Reqs :
          (Arrives(r) /\ route = "lmnt" /\ MapHas(lmntCache, ArrivedKey(r))
             /\ now - MapGet(lmntCache, ArrivedKey(r)).timestamp >= LMNT_CACHE_EXPIRATION)
          => ~(reqs'[r].pc = "done" /\ last'.hit)
       ]_vars

\* The same chat request is issued a second time within the window: request
\* r arrives with the key of the provider answer f, first stored less than
\* OPENAI_CACHE_EXPIRATION ago, and no third identical request has stored
\* another answer under the key since.
SecondIssue(r, f) ==
    /\ Arrives(r)
    /\ route = "chat"
    /\ f.key = ArrivedKey(r)
    /\ now - f.time < OPENAI_CACHE_EXPIRATION
    /\ MapHas(responseCache, f.key) => MapGet(responseCache, f.key).value = f.value

\* The second issue starts no provider call and is answered as the first was.
ServedAsFirst(r, f) ==
    /\ reqs'[r].pc = "done"
    /\ last'.status = 200
    /\ last'.hit
    /\ last'.calls = 0
    /\ last'.result = f.value

\* C5 as stated: the same chat request issued twice within the expiration
\* window makes one upstream round, and the second response equals the first.
C5_Idempotence ==
    [][\A r \in Reqs : \A f \in firstOk : SecondIssue(r, f) => ServedAsFirst(r, f)]_vars

\* C5 as amended: the same, provided the entry the first request stored has
\* not been evicted by capacity in between.
C5_IdempotenceUnlessEvicted ==
    [][\A r \in Reqs : \A f \in firstOk :
          (SecondIssue(r, f) /\ MapHas(responseCache, f.key)) => ServedAsFirst(r, f)]_vars

\* The second issue, received in the last tick of the window, was answered
\* from the cache with the first answer.
C5_Witness ==
    /\ last.endpoint = "chat"
    /\ last.hit
    /\ last.calls = 0
    /\ \E f \in firstOk :
          /\ f.key = last.key
          /\ f.value = last.result
          /\ now - f.time = OPENAI_CACHE_EXPIRATION - 1

\* A provider call of request r is in flight.
CallPending(r) == reqs[r].primary = "pending" \/ reqs[r].fallback = "pending"

\* C6: no two requests with the same cache key have provider calls in
\* flight at the same time.
C6_AtMostOneInFlightPerKey ==
    \A r1, r2 \in Reqs :
        (r1 # r2 /\ CallPending(r1) /\ CallPending(r2)) => reqs[r1].key # reqs[r2].key

\* C7: message lists that differ only in "developer" versus "system" at the
\* same position get the same cache key, from generateCacheKey and from POST.
AliasOnly(a, b) ==
    /\ Len(a) = Len(b)
    /\ \A i \in 1..Len(a) :
          /\ a[i].content = b[i].content
          /\ a[i].role = b[i].role \/ {a[i].role, b[i].role} = {"system", "developer"}

C7_KeyNormalization ==
    (keyOut # << >> /\ AliasOnly(keyIn[1], keyIn[2])) =>
        /\ keyOut.direct[1] = keyOut.direct[2]
        /\ keyOut.endpoint[1] = keyOut.endpoint[2]

\* The response answers a chat request that went to the providers.
WentUpstream(resp) == resp.endpoint = "chat" /\ resp.status # 400 /\ ~resp.hit

\* C8: in parallel mode the primary's response is used whenever the primary
\* succeeded, the fallback's when only the fallback succeeded, and the
\* request fails with the 500 envelope when both failed, whichever call
\* settled first.
C8_RaceCorrectness ==
    (WentUpstream(last) /\ last.mode = "parallel") =>
        /\ last.primary = "ok" =>
              last.status = 200 /\ last.result = Completion("primary", last.req)
        /\ (last.primary = "fail" /\ last.fallback = "ok") =>
              last.status = 200 /\ last.result = Completion("fallback", last.req)
        /\ (last.primary = "fail" /\ last.fallback = "fail") =>
              last.status = 500 /\ last.result = NoValue

\* Both calls succeeded, the fallback first: the primary's response is used.
C8_Witness ==
    /\ WentUpstream(last)
    /\ last.mode = "parallel"
    /\ last.primary = "ok"
    /\ last.fallback = "ok"
    /\ last.first = "fallback"
    /\ last.result = Completion("primary", last.req)

\* C9: in parallel mode the call that settles first, failed or not, leaves
\* the sibling pending and the request waiting, and a response is sent only
\* in the step in which the second call settles.
C9_SettleBothThenSelect ==
    [][\A r \in Reqs :
          /\ (reqs[r].pc = "awaitBoth" /\ reqs[r].primary = "pending"
                /\ reqs[r].fallback = "pending" /\ reqs'[r] # reqs[r]) =>
                /\ reqs'[r].pc = "awaitBoth"
                /\ reqs'[r].primary = "pending" \/ reqs'[r].fallback = "pending"
                /\ last' = NoResponse
                /\ responseCache' = responseCache
          /\ (Answered(r) /\ WentUpstream(last') /\ last'.mode = "parallel") =>
                /\ last'.primary \in {"ok", "fail"}
                /\ last'.fallback \in {"ok", "fail"}
       ]_vars

\* The primary failed first; the fallback completed later and its response
\* was used.
C9_Witness ==
    /\ WentUpstream(last)
    /\ last.mode = "parallel"
    /\ last.first = "primary"
    /\ last.primary = "fail"
    /\ last.fallback = "ok"
    /\ last.status = 200
    /\ last.result = Completion("fallback", last.req)

\* C10: in sequential mode the primary is called first; the fallback is
\* called, once and afterwards, exactly when the primary failed; when the
\* fallback fails too the request ends with the 500 envelope, no further
\* call being made.
C10_SequentialFallback ==
    /\ \A r \in Reqs :
          (reqs[r].endpoint = "chat" /\ ~parallelMode) =>
             /\ reqs[r].pc \in {"awaitPrimary", "awaitFallback"}
             /\ reqs[r].pc = "awaitPrimary" =>
                   /\ reqs[r].primary = "pending"
                   /\ reqs[r].fallback = "none"
                   /\ reqs[r].calls = 1
             /\ reqs[r].pc = "awaitFallback" =>
                   /\ reqs[r].primary = "fail"
                   /\ reqs[r].fallback = "pending"
                   /\ reqs[r].calls = 2
    /\ (WentUpstream(last) /\ last.mode = "sequential") =>
          /\ last.primary \in {"ok", "fail"}
          /\ last.primary = "ok" =>
                /\ last.fallback = "none"
                /\ last.calls = 1
                /\ last.status = 200
                /\ last.result = Completion("primary", last.req)
          /\ last.primary = "fail" =>
                /\ last.fallback \in {"ok", "fail"}
                /\ last.calls = 2
                /\ last.fallback = "ok" =>
                      last.status = 200 /\ last.result = Completion("fallback", last.req)
                /\ last.fallback = "fail" =>
                      last.status = 500 /\ last.result = NoValue

\* Primary and fallback failed in turn: two calls, then the 500 envelope.
C10_Witness ==
    /\ WentUpstream(last)
    /\ last.mode = "sequential"
    /\ last.primary = "fail"
    /\ last.fallback = "fail"
    /\ last.calls = 2
    /\ last.status = 500

\* The roles that carry a system prompt upstream.
SystemRoles == {"developer", "system"}

\* C11: for every accepted request the message list sent upstream holds
\* exactly one message with a system-prompt role and that message is the
\* first; when the caller's messages hold no system-role message it is the
\* default prompt.
C11_SystemPromptAnchoring ==
    (prepOut # << >> /\ prepOut[1].accepted) =>
        LET body == prepIn[1]
            ms == prepOut[1].apiMessages
        IN  /\ Cardinality({i \in 1..Len(ms) : ms[i].role \in SystemRoles}) = 1
            /\ Len(ms) >= 1
            /\ ms[1].role \in SystemRoles
            /\ (body.msgKind = "array" /\ ~Truthy(body.prompt)
                  /\ ~(\E i \in 1..Len(body.messages) : body.messages[i].role = "system"))
               => ms[1] = SystemMessage

\* The step just taken was a call of speak().
SpeakCalled == speechLast.kind \in {"speakLmnt", "speakTts", "speakUnsupported"}

\* No network speech call has been issued, by speak or by preloadAPIs.
NoNetworkSpeech ==
    /\ calls = {}
    /\ "lmnt" \notin preloadCalls
    /\ audio = IdleAudio

\* speak() has set the start timer of on-device synthesis for its text.
SpokenOnDevice ==
    /\ speechLast.kind = "speakTts"
    /\ speechLast.utt \in timers
    /\ isSpeaking

\* C12: on a mobile device with the network voice disabled on mobile, no
\* network speech call is ever issued, by speak or by preloading, and a
\* speak() under the network-voice preference takes the on-device path: the
\* text is set to be spoken by the browser's synthesis (where the browser has
\* none, nothing is spoken and the speaking flag is reset).
C12_MobileDowngrade ==
    (device.mobile /\ DISABLE_LMNT_ON_MOBILE) =>
        /\ NoNetworkSpeech
        /\ (SpeakCalled /\ preferredGender = "lmnt") =>
              IF device.synth THEN SpokenOnDevice
              ELSE speechLast.kind = "speakUnsupported" /\ ~isSpeaking

\* On a mobile device that prefers the network voice, preloading has called
\* the chat endpoint only, and the text of the last speak() is being spoken
\* by the on-device synthesis.
C12_Witness ==
    /\ device.mobile
    /\ preferredGender = "lmnt"
    /\ speechLast.kind = "preload"
    /\ preloadCalls = {"openai"}
    /\ calls = {}
    /\ synthQueue # << >>
    /\ Head(synthQueue) = Queued(nUtt, FALSE)

\* The observable state of the orchestrator, read from its two signals.
Loading == isLmntLoading
Speaking == isSpeaking /\ ~isLmntLoading
Idle == ~isSpeaking /\ ~isLmntLoading

\* C13: whenever the network speech call of an utterance fails, the
\* orchestrator leaves Loading, on-device synthesis of the same text is
\* started and the state is Speaking (or, when starting it throws, the
\* speaking flag is reset), and when that synthesis ends the state goes from
\* Speaking to Idle.
C13_NetworkFailureFallback ==
    [][/\ (speechLast'.kind = "lmntFail" /\ speechLast'.utt \in calls) =>
              /\ Loading
              /\ IF speechLast'.threw
                 THEN ~isSpeaking' /\ ~isLmntLoading'
                 ELSE /\ Speaking'
                      /\ Queued(speechLast'.utt, TRUE) \in QueueItems(synthQueue')
       /\ (speechLast'.kind = "fallbackEnd" /\ synthQueue' # synthQueue) =>
              /\ Speaking
              /\ Idle'
      ]_vars

\* C14: while a network speech call is pending the orchestrator is in
\* Loading and the speaking signal has not been raised.
C14_LoadingBeforeSpeaking ==
    calls # {} => (isLmntLoading /\ ~isSpeaking)

\* The utterances that are being played or are queued for playing.
Active ==
    {item.utt : item \in QueueItems(synthQueue)}
        \cup (IF audio.state = "playing" THEN {audio.src} ELSE {})

\* C15: once speak() has been called again, no utterance requested earlier
\* is started or goes on playing: whatever plays or is queued is the
\* utterance of the latest speak() call.
C15_SingleActiveUtterance ==
    \A u \in Active : u = nUtt

\* C16: every speak() call is followed by a return to Idle: whenever the
\* speaking or the loading flag is up, both are eventually down.
C16_SpeechLiveness ==
    (isSpeaking \/ isLmntLoading) ~> Idle

\* The network call failed and starting the on-device fallback threw: the
\* orchestrator is back in Idle.
C16_Witness ==
    /\ speechLast.kind = "lmntFail"
    /\ speechLast.threw
    /\ Idle
    /\ calls = {}

\* C17: when a fetchWithTimeout call has settled, on whatever path, the
\* timer it started is not pending any more: clearTimeout has been called.
C17_TimerCleared ==
    fetchCall.pc = "settled" =>
        /\ fetchCall.timer # "armed"
        /\ fetchCall.timers > 0 => fetchCall.cleared

\* The body read failed before the timeout: the call has settled with an
\* error and its timer is cleared.
C17_Witness ==
    /\ fetchCall.pc = "settled"
    /\ fetchCall.at = "reading"
    /\ fetchCall.op = "fail"
    /\ fetchCall.timer = "cleared"
    /\ fetchClock < fetchCall.delay

\* C18: once the timer has fired the operation is aborted and the call has
\* failed, never returning a value; when the operation completes first, the
\* call returns the operation's own value or error.
C18_TimeoutOutcome ==
    /\ fetchCall.timer = "fired" =>
          /\ fetchCall.pc = "settled"
          /\ fetchCall.op = "aborted"
          /\ fetchCall.result = "error"
    /\ (fetchCall.pc = "settled" /\ fetchCall.timer # "fired") =>
          /\ fetchCall.op = "ok" =>
                fetchCall.result \in {"object", "arrayBuffer", "text"}
          /\ fetchCall.op \in {"fail", "aborted"} => fetchCall.result = "error"

\* The timer fired while the response body was being read.
C18_Witness ==
    /\ fetchCall.timer = "fired"
    /\ fetchCall.at = "reading"
    /\ fetchCall.pc = "settled"
    /\ fetchCall.result = "error"

\* C19: with a signal supplied by the caller, fetchWithTimeout starts no
\* timer and creates no controller, and fetch gets the caller's signal;
\* without one it starts exactly one timer, of the timeout given or of
\* FETCH_TIMEOUT when none is given, and fetch gets its own signal.
C19_ExternalSignal ==
    fetchCall.pc # "idle" =>
        IF fetchCall.options.signal
        THEN /\ fetchCall.timers = 0
             /\ fetchCall.timer = "none"
             /\ ~fetchCall.controller
             /\ fetchCall.signal = "caller"
        ELSE /\ fetchCall.timers = 1
             /\ fetchCall.controller
             /\ fetchCall.signal = "own"
             /\ fetchCall.delay = (IF fetchCall.options.timeout.given
                                   THEN fetchCall.options.timeout.ms
                                   ELSE FETCH_TIMEOUT)

\* A call with the caller's signal and a timeout of 1 is still reading the
\* body at tick 3: no timer of its own has cut it short.
C19_Witness ==
    /\ fetchCall.options = [signal |-> TRUE, timeout |-> Ms(1)]
    /\ fetchCall.pc = "reading"
    /\ fetchClock = MaxFetchClock
    /\ fetchCall.timers = 0

\* C20: when the chat request of the session fails, by a response that is
\* not ok, a network error or a failed read, the session shows the one
\* communication error, loading is false again and the history is as it was:
\* nothing removed, nothing reordered, no assistant message appended.
C20_FailurePreservesHistory ==
    [][(chatReq.pc # "none" /\ sessionLast'.kind = "failed") =>
          /\ error' = CommunicationError
          /\ ~loading'
          /\ chatReq' = NoChatReq
          /\ conversationHistory' = conversationHistory
          /\ conversationHistory[Len(conversationHistory)] = Msg("user", chatReq.message)
      ]_vars

\* A request failed after an earlier exchange: the earlier user message and
\* reply and the message of the failed request are all in the history.
C20_Witness ==
    /\ sessionLast.kind = "failed"
    /\ error = CommunicationError
    /\ ~loading
    /\ Len(conversationHistory) = 3
    /\ conversationHistory[2] = Msg("assistant", ReplyText)
    /\ conversationHistory[3] = Msg("user", sessionLast.message)

\* C21: after a chat request has failed with the communication error, the
\* user can retry: handleUserMessage called again with the text of the failed
\* request, while nothing is loading, issues a new chat request.
C21_RetryAfterFailure ==
    [][(/\ sessionLast.kind = "failed"
        /\ error = CommunicationError
        /\ ~loading
        /\ sessionLast'.kind \in {"sent", "ignored"}
        /\ sessionLast'.message = sessionLast.message) =>
          /\ sessionLast'.kind = "sent"
          /\ chatReq'.pc = "awaitFetch"
      ]_vars

Min(a, b) == IF a < b THEN a ELSE b

\* C22: for every history length n, the list sent to the chat endpoint is the
\* system prompt followed by the most recent min(n+1, 9) messages of the
\* history plus the current user message, in their order and ending with the
\* current user message; it has at most 10 messages and its only system
\* message is the first.
C22_BoundedWindow ==
    [][sessionLast'.kind = "sent" =>
          LET n == Len(conversationHistory)
              current == Msg("user", sessionLast'.message)
              all == Append(conversationHistory, current)
              k == Min(n + 1, 9)
              sent == chatReq'.sent
          IN  /\ Len(sent) = k + 1
              /\ Len(sent) <= 10
              /\ sent[1] = SessionSystemMessage
              /\ \A i \in 1..k : sent[i + 1] = all[n + 1 - k + i]
              /\ sent[Len(sent)] = current
              /\ \A i \in 2..Len(sent) : sent[i].role # "system"
      ]_vars

\* A request is pending that was sent from a history of ten messages: the
\* two oldest are left out of the ten messages sent.
C22_Witness ==
    /\ chatReq.pc = "awaitFetch"
    /\ Len(conversationHistory) = 11
    /\ Len(chatReq.sent) = 10
    /\ chatReq.sent[2] = conversationHistory[3]
    /\ chatReq.sent[10] = conversationHistory[11]

\* The response bodies the normalizers do not recognize: choices missing,
\* empty or holding no choice; a choice whose message is no object and whose
\* own content is absent or empty; a choice whose own content is neither a
\* string nor a list with a text; a content beside a message that is absent.
Unrecognized(data) ==
    /\ data.kind = "object"
    /\ \/ data.choices # "one"
       \/ /\ data.choice.message.kind # "object"
          /\ ~ /\ data.choice.message.kind = "null"
               /\ \/ data.choice.content.kind = "string" /\ data.choice.content.text # ""
                  \/ /\ data.choice.content.kind = "array"
                     /\ data.choice.content.item = "text"
                     /\ data.choice.content.text # ""

Placeholders == {NoProperResponse, UnknownFormat, CouldNotProcess}

EmptyReply(data) ==
    /\ data.kind = "object"
    /\ data.choices = "one"
    /\ data.choice.message = Message(Str(""))

\* C24: when the provider call succeeds with an empty reply text, the empty
\* text is what is returned as the reply: the normalizers hand back the empty
\* string and the assistant message carries it, no other message replaces it
\* and no error is shown.
C24_EmptyReply ==
    (normOut # << >> /\ EmptyReply(normIn[1])) =>
        /\ normOut[1].server = Str("")
        /\ normOut[1].client = Str("")
        /\ normOut[1].appended = <<[role |-> "assistant", content |-> Str("")]>>
        /\ normOut[1].error = ""

\* The three documented shapes: the text flat on the message, in a list beside
\* a null message, or as a string beside a null message.
Documented(data) ==
    /\ data.kind = "object"
    /\ data.choices = "one"
    /\ \/ /\ data.choice.message.kind = "object"
          /\ data.choice.message.content.kind = "string"
       \/ /\ data.choice.message.kind = "null"
          /\ \/ data.choice.content.kind = "string"
             \/ data.choice.content.kind = "array" /\ data.choice.content.item = "text"

\* The reply text such a response carries.
ReplyOf(data) ==
    IF data.choice.message.kind = "object"
    THEN data.choice.message.content.text
    ELSE data.choice.content.text

\* C30: for a response of one of the three documented shapes the normalizers
\* return the reply text as a string, and for no response at all does a
\* normalizer return a value that is not a string.
C30_NormalizationReturnsText ==
    normOut # << >> =>
        /\ Documented(normIn[1]) =>
              /\ normOut[1].server = Str(ReplyOf(normIn[1]))
              /\ normOut[1].client = Str(ReplyOf(normIn[1]))
        /\ normOut[1].server.kind = "string"
        /\ normOut[1].client.kind \in {"string", "TypeError"}

\* The body carries neither a prompt nor messages.
NeitherGiven(body) == body.prompt = "" /\ body.msgKind = "absent"

\* C25: a chat request carrying neither prompt nor messages is answered 400
\* on arrival, with no upstream call made and the response cache as it was,
\* and no other request is answered 400; every other answer of the chat
\* endpoint is a provider's completion with status 200 or the 500 envelope.
C25_ChatInputValidation ==
    [][/\ \A r \in Reqs, body \in ChatBodies :
             ChatArrive(r, body) =>
                 /\ NeitherGiven(body) <=> (last'.req = r /\ last'.status = 400)
                 /\ NeitherGiven(body) =>
                       /\ last'.calls = 0
                       /\ reqs'[r] = DoneReq
                       /\ responseCache' = responseCache
                       /\ \A q \in Reqs \ {r} : reqs'[q] = reqs[q]
       /\ (last'.endpoint = "chat" /\ last'.req # 0 /\ last'.status # 400) =>
             \/ /\ last'.status = 200
                /\ last'.result.model \in {"primary", "fallback"}
             \/ /\ last'.status = 500
                /\ last'.result = NoValue
      ]_vars

\* A request without prompt and messages was answered 400 while the cache
\* held an entry and another request was waiting for its provider calls.
C25_Witness ==
    /\ last.endpoint = "chat"
    /\ last.status = 400
    /\ last.calls = 0
    /\ Len(responseCache) > 0
    /\ InFlight # {}

\* C26: when the credential is absent, a speech request with a text is
\* answered 500 on arrival: no provider call is made, the audio cache and
\* every other request are left as they were, so that a later request,
\* arriving when the credential is present, is served as ever.
C26_MissingSpeechCredential ==
    [][\A r \in Reqs, body \in LmntBodies :
          (body.text # "" /\ LmntArrive(r, body, FALSE)) =>
              /\ last'.req = r
              /\ last'.status = 500
              /\ last'.result = NoValue
              /\ last'.calls = 0
              /\ reqs'[r] = DoneReq
              /\ lmntCache' = lmntCache
              /\ \A q \in Reqs \ {r} : reqs'[q] = reqs[q]
      ]_vars

\* Request 1 was answered 500 for want of the credential, and a later request
\* has just been served fresh audio, which is in the cache.
C26_Witness ==
    /\ route = "lmnt"
    /\ reqs[1] = DoneReq
    /\ lmntCache # << >>
    /\ \A i \in 1..Len(lmntCache) : lmntCache[i].value.id # 1
    /\ last.status = 200
    /\ ~last.hit
    /\ last.req = 2

\* C27: a chat request whose model calls all failed is answered 500 and
\* leaves the response cache as it was, no entry inserted and none
\* overwritten; the cache never holds anything but a provider's completion,
\* and that is all a hit ever serves.
C27_OnlySuccessCached ==
    [][/\ \A r \in Reqs :
             (Answered(r) /\ last'.endpoint = "chat" /\ last'.calls > 0
                /\ last'.primary # "ok" /\ last'.fallback # "ok") =>
                 /\ last'.status = 500
                 /\ responseCache' = responseCache
       /\ \A i \in 1..Len(responseCache') :
             responseCache'[i].value.model \in {"primary", "fallback"}
       /\ (last'.endpoint = "chat" /\ last'.hit) =>
             last'.result.model \in {"primary", "fallback"}
      ]_vars

\* A request has just failed on both models while an expired entry stood
\* under its key: the entry is still there with its old value.
C27_Witness ==
    /\ last.endpoint = "chat"
    /\ last.status = 500
    /\ last.calls > 0
    /\ MapHas(responseCache, last.key)
    /\ MapGet(responseCache, last.key).value.id < last.req

\* C28: on a miss of the chat cache the sweep runs if and only if the cache
\* holds more than half its capacity: at or below half the cache is left as
\* it is; above it no entry older than the expiration remains afterwards;
\* and no entry a lookup at that instant would serve as live is removed.
C28_OpportunisticSweep ==
    [][\A r \in Reqs :
          (reqs[r].pc = "idle" /\ reqs'[r].pc \in {"awaitBoth", "awaitPrimary"}) =>
              /\ Len(responseCache) * 2 <= OPENAI_CACHE_SIZE =>
                    responseCache' = responseCache
              /\ Len(responseCache) * 2 > OPENAI_CACHE_SIZE =>
                    \A i \in 1..Len(responseCache') :
                        now - responseCache'[i].timestamp <= OPENAI_CACHE_EXPIRATION
              /\ \A i \in 1..Len(responseCache) :
                    now - responseCache[i].timestamp < OPENAI_CACHE_EXPIRATION =>
                        \E j \in 1..Len(responseCache') :
                            responseCache'[j] = responseCache[i]
              /\ \A j \in 1..Len(responseCache') :
                    \E i \in 1..Len(responseCache) : responseCache[i] = responseCache'[j]
      ]_vars

\* A miss has just swept an expired entry away and left another in place.
C28_Witness ==
    /\ last.swept # {}
    /\ responseCache # << >>
    /\ \E r \in Reqs : reqs[r].pc \in {"awaitBoth", "awaitPrimary"}

\* The cache of the endpoint that sent the response of this step.
CacheOf(endpoint) == IF endpoint = "chat" THEN responseCache ELSE lmntCache
CacheAfter(endpoint) == IF endpoint = "chat" THEN responseCache' ELSE lmntCache'
CapacityOf(endpoint) == IF endpoint = "chat" THEN OPENAI_CACHE_SIZE ELSE LMNT_CACHE_SIZE

\* C29: a store evicts only when the size would otherwise exceed capacity.
\* Storing under a key already present overwrites that entry and removes no
\* other, even at capacity; storing a new key below capacity removes none.
C29_PutEvictsOnlyOnOverflow ==
    [][\A r \in Reqs :
          (Answered(r) /\ last'.status = 200 /\ ~last'.hit) =>
              LET before == CacheOf(last'.endpoint)
                  after == CacheAfter(last'.endpoint)
                  k == last'.key
              IN  /\ MapHas(after, k) /\ MapGet(after, k).value = last'.result
                  /\ MapHas(before, k) => MapKeys(after) = MapKeys(before)
                  /\ (~MapHas(before, k) /\ Len(before) < CapacityOf(last'.endpoint)) =>
                        MapKeys(after) = MapKeys(before) \cup {k}
      ]_vars

\* C31: the mobile downgrade is governed by the configuration flag.  On a
\* mobile device that prefers the network voice, speak() takes the
\* network-voice path when DISABLE_LMNT_ON_MOBILE is false, and takes an
\* on-device path only when the flag is true.
C31_DowngradeGovernedByFlag ==
    [][(nUtt' = nUtt + 1 /\ device.mobile /\ preferredGender = "lmnt") =>
          /\ ~config.DISABLE_LMNT_ON_MOBILE => speechLast'.kind = "speakLmnt"
          /\ speechLast'.kind # "speakLmnt" => config.DISABLE_LMNT_ON_MOBILE
      ]_vars

\* C32: a cache hit is read-only.  The step that serves a request from a
\* cache leaves both caches exactly as they were, every entry with its
\* timestamp and at its place in the order, and sweeps nothing.
C32_HitIsReadOnly ==
    [][(last'.req # 0 /\ last'.hit) =>
          /\ responseCache' = responseCache
          /\ lmntCache' = lmntCache
          /\ insOrder' = insOrder
          /\ last'.swept = {}
          /\ last'.evicted = {}
      ]_vars

\* The oldest entry of a full chat cache has just been served at a later
\* time than it was stored: it is still the first, with its old timestamp.
C32_Witness ==
    /\ last.endpoint = "chat"
    /\ last.hit
    /\ Len(responseCache) = OPENAI_CACHE_SIZE
    /\ responseCache[1].key = last.key
    /\ responseCache[1].timestamp < now

\* C33: under any interleaving of concurrent requests, the entry a capacity
\* eviction removes is the one with the oldest stored timestamp in the cache:
\* no entry left behind was stored earlier than the latest store of the entry
\* removed, an entry re-stored with a fresh timestamp included.
C33_EvictsOldestTimestamp ==
    [][(last'.endpoint = "chat" /\ last'.evicted # {}) =>
          \A k \in last'.evicted :
              \A i \in 1..Len(responseCache) :
                  MapGet(responseCache, k).timestamp <= responseCache[i].timestamp
      ]_vars

\* C34: two speech requests whose (voice, text) pairs differ never get the
\* same audio cache key, also when a voice or a text holds a ':'.
C34_AudioKeysInjective ==
    (keyOut # << >> /\ <<VoiceOf(keyIn[1]), keyIn[1].text>>
                         # <<VoiceOf(keyIn[2]), keyIn[2].text>>) =>
        keyOut.lmnt[1] # keyOut.lmnt[2]

\* The utterances requested and not yet finished: waiting for their start
\* timer or their network call, handed to the speech synthesis, or playing
\* in the audio element.
PendingOrPlaying ==
    timers \cup calls \cup {item.utt : item \in QueueItems(synthQueue)}
        \cup (IF audio.state = "playing" THEN {audio.src} ELSE {})

BeingPlayed == synthQueue # << >> \/ audio.state = "playing"

EndEvents == {"synthEnd", "fallbackEnd", "cancelEvent", "audioEnd"}

\* C35: while an utterance is being played the speaking signal is true, and
\* the end or error event of an utterance never turns the signal off while a
\* newer utterance is pending or playing.
C35_SpeakingUnderSupersession ==
    [][/\ BeingPlayed' => isSpeaking'
       /\ (speechLast'.kind \in EndEvents /\ isSpeaking /\
             \E u \in PendingOrPlaying' : u > speechLast'.utt) => isSpeaking'
      ]_vars

\* C36: once the network call of a later utterance has been started while
\* an earlier call was pending, a call that settles leaves the loading
\* signal on as long as the newest call is pending, and the audio it loads
\* is never that of an utterance older than one already requested on the
\* network path and settled or loaded since.
C36_OverlappingNetworkUtterances ==
    [][speechLast'.kind \in {"lmntOk", "lmntFail"} =>
          /\ (\E u \in calls' : u > speechLast'.utt) => isLmntLoading'
          /\ (speechLast'.kind = "lmntOk" /\ audio.src > speechLast'.utt)
                => audio'.src = audio.src
      ]_vars

\* C37: for every response body the reply text extractResponseText computes
\* equals the reply text the conversation session computes from it.
C37_NormalizersAgree ==
    normOut # << >> => normOut[1].server = normOut[1].client

\* C38: the session has a request in flight exactly while it is loading; a
\* request is sent only when none is in flight, after its user message has
\* been appended as the last of the history and of the list sent; and a
\* reply is appended right behind the user message it answers, before any
\* later user message.
C38_SessionOrdering ==
    [][/\ loading' <=> chatReq' # NoChatReq
       /\ (chatReq' # chatReq /\ chatReq'.pc = "awaitFetch") =>
             /\ chatReq = NoChatReq
             /\ conversationHistory' =
                   Append(conversationHistory, Msg("user", chatReq'.message))
             /\ chatReq'.sent[Len(chatReq'.sent)] = Msg("user", chatReq'.message)
       /\ sessionLast'.kind = "replied" =>
             /\ conversationHistory # << >>
             /\ conversationHistory[Len(conversationHistory)]
                   = Msg("user", chatReq.message)
             /\ conversationHistory' =
                   Append(conversationHistory, Msg("assistant", ReplyText))
      ]_vars

\* Two messages were sent one after the other and each got its reply.
C38_Witness ==
    /\ sessionLast.kind = "replied"
    /\ chatReq = NoChatReq
    /\ Len(conversationHistory) = 4
    /\ conversationHistory[1].role = "user"
    /\ conversationHistory[2].role = "assistant"
    /\ conversationHistory[3].role = "user"
    /\ conversationHistory[3].content # conversationHistory[1].content
    /\ conversationHistory[4].role = "assistant"

\* The tiers of the ranked match for a gender, each in list order.
Tiers(vs, gender) ==
    LET keywords == IF gender = "male" THEN maleKeywords ELSE femaleKeywords
    IN  << SelectSeq(vs, LAMBDA v : StartsWith(v.lang, En) /\ SomeKeyword(keywords, v.name)),
           SelectSeq(vs, LAMBDA v : SomeKeyword(keywords, v.name)),
           SelectSeq(vs, LAMBDA v : StartsWith(v.lang, En)),
           vs >>

\* C39: for a 'male' request on a list holding an English voice with a male
\* keyword and no female keyword in its name, the voice selected has no
\* female keyword in its name; and the voice selected is the first of the
\* highest-ranked tier that is not empty, absent only for an empty list.
C39_MaleVoiceSelection ==
    voiceOut # << >> =>
        LET vs == voiceIn[1].voices
            gender == voiceIn[1].gender
            tiers == Tiers(vs, gender)
        IN  /\ (/\ gender = "male"
                /\ \E v \in VoicesOf(vs) :
                      /\ StartsWith(v.lang, En)
                      /\ SomeKeyword(maleKeywords, v.name)
                      /\ ~SomeKeyword(femaleKeywords, v.name))
                  => ~SomeKeyword(femaleKeywords, voiceOut[1].name)
            /\ voiceOut[1] = NoVoice <=> vs = << >>
            /\ vs # << >> =>
                  \E t \in 1..4 :
                      /\ tiers[t] # << >>
                      /\ \A s \in 1..(t - 1) : tiers[s] = << >>
                      /\ voiceOut[1] = tiers[t][1]

====
